---- MODULE Spec2Model ----
(***************************************************************************)
(* A model of the iridescent compiler's front end: the parser's scope      *)
(* registry (src/src/frontend/parser.rs), the symbol table and the         *)
(* semantic validator (src/src/semantics.rs) and the intermediate code     *)
(* emitter (src/src/intermediate_gen.rs), driven in the order of           *)
(* src/src/main.rs: parse, generate_symbol_table, semantic_validation,     *)
(* generate_program_intermediate.                                          *)
(*                                                                         *)
(* Option<T> is a sequence: <<>> is None and <<x>> is Some(x).  A Vec is a *)
(* sequence.  An enum value is a record with a kind field.                 *)
(***************************************************************************)
EXTENDS Integers, Sequences, FiniteSets, TLC

VARIABLES
    pc,            \* position in main(): "parse", "symtab", "validate", "emit", "done"
                   \* (the intermediate code is there), "lowered", "panic"
    source,        \* the parse tree handed to the AST builder (an AST without scope ids)
    entries,       \* frontend::parser::SymbolTable.entries, the scope registry
    ast,           \* Vec<ASTNode> returned by parse
    todo,          \* pending generate_sub_symbol_table calls, next call first
    rows,          \* semantics::SymbolTable.rows
    result,        \* what semantic_validation returned: "Ok", an error kind, or "Panic"
    uses,          \* the symbol-table lookups the validator made, with their outcome
    panic,         \* the message of the panic that ended the run, "" while there is none
    instructions,  \* Vec<IntermediateInstr> of generate_program_intermediate
    memory_map,    \* HashMap<String, AddrTypePair> of generate_program_intermediate
    NEXT_LABEL,    \* static NEXT_LABEL of get_next_label
    NEXT_ADDRESS,  \* static NEXT_ADDRESS of gen_intermediate_code
    mips_instrs,          \* Vec<String> of generate_mips, written to the output file
    stack_id_offset_map,  \* HashMap<usize, usize> of generate_mips
    current_var_offset,   \* current_var_offset of generate_mips
    stack_types           \* Vec<Type> of generate_mips

vars == <<pc, source, entries, ast, todo, rows, result, uses, panic,
          instructions, memory_map, NEXT_LABEL, NEXT_ADDRESS,
          mips_instrs, stack_id_offset_map, current_var_offset, stack_types>>

\* the variables of generate_mips
mips_vars == <<mips_instrs, stack_id_offset_map, current_var_offset, stack_types>>

(***************************************************************************)
(* Bounds of the model.                                                    *)
(***************************************************************************)
\* the number of statement nodes in the body of the function under test
MaxNodes == 3

None == <<>>
Some(x) == <<x>>
IsSome(o) == Len(o) > 0
Unwrap(o) == o[1]

(***************************************************************************)
(* ast.rs: the tree.                                                       *)
(***************************************************************************)
Type == {"Void", "Byte", "Integer", "Long", "Char", "Boolean"}

Mutability == {"Mutable", "Constant"}

\* Literal::Integer(1) is Literal("Integer", 1)
Literal(k, v) == [kind |-> k, v |-> v]
Value(t, v) == [kind |-> "Value", literal_type |-> t, value |-> v]
Identifier(id) == [kind |-> "Identifier", identifier |-> id]
Term(c) == [kind |-> "Term", child |-> c]
Expression(l, op, r) == [kind |-> "Expression", lhs |-> l, operator |-> op, rhs |-> r]
FunctionCall(id, args) == [kind |-> "FunctionCall", identifier |-> id, arguments |-> args]
BooleanTerm(l, op, r) == [kind |-> "BooleanTerm", lhs |-> l, operator |-> op, rhs |-> r]
BooleanExpression(l, op, c, r) ==
    [kind |-> "BooleanExpression", lhs |-> l, operator |-> op, connector |-> c, rhs |-> r]
TernaryExpression(c, t, f) ==
    [kind |-> "TernaryExpression", condition |-> c, if_true |-> t, if_false |-> f]
Parameter(t, id) == [kind |-> "Parameter", param_type |-> t, identifier |-> id]
ReturnStatement(e) == [kind |-> "ReturnStatement", expression |-> e]
VarDeclStatement(t, m, id, e) ==
    [kind |-> "VarDeclStatement", var_type |-> t, mutability |-> m, identifier |-> id, value |-> e]
VarAssignStatement(id, e) == [kind |-> "VarAssignStatement", identifier |-> id, value |-> e]
IfElifElseStatement(ss) == [kind |-> "IfElifElseStatement", statements |-> ss]
IfStatement(c, ss, sc) == [kind |-> "IfStatement", condition |-> c, statements |-> ss, scope |-> sc]
ElseStatement(ss, sc) == [kind |-> "ElseStatement", statements |-> ss, scope |-> sc]
IndefLoop(ss, sc) == [kind |-> "IndefLoop", statements |-> ss, scope |-> sc]
WhileLoop(c, ss, sc) == [kind |-> "WhileLoop", condition |-> c, statements |-> ss, scope |-> sc]
ForLoop(t, id, init, limit, step, ss, sc) ==
    [kind |-> "ForLoop", control_type |-> t, control_identifier |-> id, control_initial |-> init,
     limit |-> limit, step |-> step, statements |-> ss, scope |-> sc]
Function(rt, id, ps, ss, sc) ==
    [kind |-> "Function", return_type |-> rt, identifier |-> id, parameters |-> ps,
     statements |-> ss, scope |-> sc]
Break == [kind |-> "Break"]
Continue == [kind |-> "Continue"]

(***************************************************************************)
(* frontend/parser.rs: the scope registry and the AST builder.  The parse  *)
(* tree is written as the tree the builder makes of it, with no scope ids  *)
(* (scope 0); the builder's work modelled here is the scope assignment.    *)
(***************************************************************************)
RECURSIVE parser_next_from(_, _)
parser_next_from(symbols, next) ==
    IF symbols = <<>> THEN next
    ELSE parser_next_from(Tail(symbols),
                          IF Head(symbols).scope >= next THEN Head(symbols).scope + 1 ELSE next)

\* the next id when the search starts from the global id
parser_scope_id_from_global(table) == parser_next_from(table, 0)
parser_get_next_scope_id(table) == parser_next_from(table, 1)

\* SymbolTable::add of the parser: the new table and the id handed out
parser_add(table) ==
    LET scope_id == parser_get_next_scope_id(table)
    IN  [entries |-> Append(table, [scope |-> scope_id]), scope_id |-> scope_id]

RECURSIVE build_ast_from_statement(_, _), build_statements(_, _, _), build_ast_from_if_structure(_, _, _)

\* while let Some(statement) = parent.next() { statements.push(build_ast_from_statement(..)) }
build_statements(pairs, done, table) ==
    IF pairs = <<>> THEN [nodes |-> done, entries |-> table]
    ELSE LET b == build_ast_from_statement(Head(pairs), table)
         IN  build_statements(Tail(pairs), Append(done, b.node), b.entries)

\* the statements of a block are built first, its scope is allocated after them
build_ast_from_block(pair, table) ==
    LET body == build_statements(pair.statements, <<>>, table)
        a == parser_add(body.entries)
    IN  [node |-> [pair EXCEPT !.statements = body.nodes, !.scope = a.scope_id],
         entries |-> a.entries]

build_ast_from_if_structure(arms, done, table) ==
    IF arms = <<>> THEN [node |-> IfElifElseStatement(done), entries |-> table]
    ELSE LET b == build_ast_from_block(Head(arms), table)
         IN  build_ast_from_if_structure(Tail(arms), Append(done, b.node), b.entries)

build_ast_from_statement(pair, table) ==
    CASE pair.kind = "IfElifElseStatement" -> build_ast_from_if_structure(pair.statements, <<>>, table)
      [] pair.kind \in {"IndefLoop", "WhileLoop", "ForLoop"} -> build_ast_from_block(pair, table)
      [] OTHER -> [node |-> pair, entries |-> table]

\* the scope of a function is allocated before its statements are built
build_ast_from_function(pair, table) ==
    LET a == parser_add(table)
        body == build_statements(pair.statements, <<>>, a.entries)
    IN  [node |-> [pair EXCEPT !.statements = body.nodes, !.scope = a.scope_id],
         entries |-> body.entries]

RECURSIVE parse_from(_, _, _)
parse_from(pairs, done, table) ==
    IF pairs = <<>> THEN [ast |-> done, entries |-> table]
    ELSE LET b == build_ast_from_function(Head(pairs), table)
         IN  parse_from(Tail(pairs), Append(done, b.node), b.entries)

parse(pairs) == parse_from(pairs, <<>>, <<>>)

(***************************************************************************)
(* semantics.rs: the symbol table and its construction.                    *)
(***************************************************************************)
FunctionRow(id, rt, ps, sc, psc) ==
    [kind |-> "Function", identifier |-> id, return_type |-> rt, parameters |-> ps,
     scope |-> sc, parent_scope |-> psc]
VariableRow(id, t, m, psc, p) ==
    [kind |-> "Variable", identifier |-> id, primitive_type |-> t, mutability |-> m,
     parent_scope |-> psc, parent |-> p]
ScopeBlockRow(id, sc, psc, p) ==
    [kind |-> "ScopeBlock", identifier |-> id, scope |-> sc, parent_scope |-> psc, parent |-> p]

get_identifier(row) == row.identifier

get_scope_id(row) ==
    CASE row.kind = "Function" -> row.scope
      [] row.kind = "Variable" -> row.parent_scope
      [] row.kind = "ScopeBlock" -> row.scope

get_parent_scope_id(row) == row.parent_scope

get_parent_identifier(row) ==
    CASE row.kind = "Function" -> "global"
      [] row.kind = "Variable" -> get_identifier(row.parent)
      [] row.kind = "ScopeBlock" -> get_identifier(row.parent)

\* add without the check for a duplicate
add_unchecked(table, new_row) == [rows |-> Append(table, new_row), panic |-> ""]

\* SymbolTable::add: the table afterwards, and whether the call panicked
add(table, new_row) ==
    IF \E i \in 1..Len(table) :
           /\ get_identifier(table[i]) = get_identifier(new_row)
           /\ get_parent_identifier(table[i]) = get_parent_identifier(new_row)
    THEN [rows |-> table, panic |-> "Duplicate identifier"]
    ELSE [rows |-> Append(table, new_row), panic |-> ""]

RECURSIVE next_scope_from(_, _)
next_scope_from(table, max_id) ==
    IF table = <<>> THEN max_id
    ELSE next_scope_from(Tail(table),
                         IF get_scope_id(Head(table)) >= max_id
                         THEN get_scope_id(Head(table)) + 1 ELSE max_id)

get_next_scope_id(table) == next_scope_from(table, 1)

\* the recursive calls a call makes, in order: each statement with the parent row
Calls(statements, parent) ==
    [i \in 1..Len(statements) |-> [subtree |-> statements[i], parent |-> parent]]

\* format!("{}_{}", parent_struct.get_identifier(), scope_id)
BlockIdentifier(parent_struct, scope_id) ==
    get_identifier(parent_struct) \o "_" \o ToString(scope_id)

\* One call of generate_sub_symbol_table, without the calls it makes on the
\* children: the table afterwards, the panic if any, and the calls to make.
generate_sub_symbol_table(subtree, table, parent) ==
    CASE subtree.kind = "Function" ->
           LET param_types == [i \in 1..Len(subtree.parameters) |-> subtree.parameters[i].param_type]
               function_row == FunctionRow(subtree.identifier, subtree.return_type, param_types,
                                           subtree.scope, 0)
               a == add(table, function_row)
           IN  [rows |-> a.rows, panic |-> a.panic,
                calls |-> Calls(subtree.parameters, Some(function_row))
                          \o Calls(subtree.statements, Some(function_row))]
      [] subtree.kind = "Parameter" ->
           IF ~IsSome(parent) THEN [rows |-> table, panic |-> "unwrap on None", calls |-> <<>>]
           ELSE LET a == add(table, VariableRow(subtree.identifier, subtree.param_type, "Constant",
                                                get_scope_id(Unwrap(parent)), Unwrap(parent)))
                IN  [rows |-> a.rows, panic |-> a.panic, calls |-> <<>>]
      [] subtree.kind = "VarDeclStatement" ->
           IF ~IsSome(parent) THEN [rows |-> table, panic |-> "unwrap on None", calls |-> <<>>]
           ELSE LET a == add(table, VariableRow(subtree.identifier, subtree.var_type,
                                                subtree.mutability,
                                                get_scope_id(Unwrap(parent)), Unwrap(parent)))
                IN  [rows |-> a.rows, panic |-> a.panic, calls |-> <<>>]
      [] subtree.kind = "IfElifElseStatement" ->
           [rows |-> table, panic |-> "", calls |-> Calls(subtree.statements, parent)]
      [] subtree.kind = "IfStatement" ->
           IF ~IsSome(parent) THEN [rows |-> table, panic |-> "unwrap on None", calls |-> <<>>]
           ELSE LET scope_id == get_next_scope_id(table)
                    parent_struct == Unwrap(parent)
                    new_row == ScopeBlockRow(BlockIdentifier(parent_struct, scope_id),
                                             subtree.scope, get_scope_id(parent_struct),
                                             parent_struct)
                    a == add(table, new_row)
                IN  [rows |-> a.rows, panic |-> a.panic,
                     calls |-> Calls(subtree.statements, Some(new_row))]
      [] subtree.kind = "ForLoop" ->
           IF subtree.control_type \notin {"Integer", "Long"}
           THEN [rows |-> table, panic |-> "For loop control variable must be int or long",
                 calls |-> <<>>]
           ELSE IF ~IsSome(parent)
           THEN [rows |-> table, panic |-> "unwrap on None", calls |-> <<>>]
           ELSE LET scope_id == get_next_scope_id(table)
                    parent_struct == Unwrap(parent)
                    new_row == ScopeBlockRow(BlockIdentifier(parent_struct, scope_id),
                                             subtree.scope, get_scope_id(parent_struct),
                                             parent_struct)
                    a == add(table, new_row)
                    b == add(a.rows, VariableRow(subtree.control_identifier, subtree.control_type,
                                                 "Mutable", scope_id, new_row))
                IN  IF a.panic # "" THEN [rows |-> a.rows, panic |-> a.panic, calls |-> <<>>]
                    ELSE [rows |-> b.rows, panic |-> b.panic,
                          calls |-> Calls(subtree.statements, Some(new_row))]
      [] OTHER -> [rows |-> table, panic |-> "", calls |-> <<>>]

\* generate_symbol_table: one call per top-level node, with no parent
generate_symbol_table_calls(root) == Calls(root, None)

(***************************************************************************)
(* semantics.rs: the lookups.  A call returns a record: res is "Ok", the   *)
(* kind of the Err, or the message of a panic; val is the Ok value; uses   *)
(* are the lookups made, each with its arguments and outcome.              *)
(***************************************************************************)
ErrorKinds == {"SymbolNotFoundError", "IncorrectDatatype", "IncorrectNumArguments",
               "BadFunctionReturn", "ImmutableReassignmentError"}

Ok(v, u) == [res |-> "Ok", val |-> v, uses |-> u]
Fail(r, u) == [res |-> r, val |-> "", uses |-> u]
IsOk(r) == r.res = "Ok"
IsErr(r) == r.res \in ErrorKinds
\* the uses of a call made after the calls that made the uses u
After(u, r) == [r EXCEPT !.uses = u \cup r.uses]
\* .unwrap(): an Err becomes a panic
unwrap(r) == IF IsErr(r) THEN [r EXCEPT !.res = "panic: unwrap on " \o r.res] ELSE r

Contains(scope_history, id) == \E i \in 1..Len(scope_history) : scope_history[i] = id

\* for row in &self.rows { if row.get_identifier() == identifier &&
\*     scope_history.contains(&row.get_parent_scope_id()) { return .. } }
RECURSIVE first_row_in_scope(_, _, _)
first_row_in_scope(table, identifier, scope_history) ==
    IF table = <<>> THEN None
    ELSE IF /\ get_identifier(Head(table)) = identifier
            /\ Contains(scope_history, get_parent_scope_id(Head(table)))
         THEN Some(Head(table))
         ELSE first_row_in_scope(Tail(table), identifier, scope_history)

Use(fn, identifier, scope_history, res) ==
    {[fn |-> fn, identifier |-> identifier, scope_history |-> scope_history, res |-> res]}

get_identifier_in_scope(table, identifier, scope_history) ==
    LET row == first_row_in_scope(table, identifier, scope_history)
    IN  IF IsSome(row)
        THEN Ok(get_scope_id(Unwrap(row)),
                Use("get_identifier_in_scope", identifier, scope_history, "Ok"))
        ELSE Fail("SymbolNotFoundError",
                  Use("get_identifier_in_scope", identifier, scope_history, "SymbolNotFoundError"))

\* get_scope_type panics on a scope block
get_identifier_type_in_scope(table, identifier, scope_history) ==
    LET row == first_row_in_scope(table, identifier, scope_history)
        fn == "get_identifier_type_in_scope"
    IN  IF ~IsSome(row)
        THEN Fail("SymbolNotFoundError", Use(fn, identifier, scope_history, "SymbolNotFoundError"))
        ELSE IF Unwrap(row).kind = "ScopeBlock"
        THEN Fail("panic: Cannot get type of scope block",
                  Use(fn, identifier, scope_history, "panic: Cannot get type of scope block"))
        ELSE Ok(IF Unwrap(row).kind = "Function" THEN Unwrap(row).return_type
                ELSE Unwrap(row).primitive_type,
                Use(fn, identifier, scope_history, "Ok"))

\* get_mutability panics on a scope block
get_mutability_in_scope(table, identifier, scope_history) ==
    LET row == first_row_in_scope(table, identifier, scope_history)
        fn == "get_mutability_in_scope"
    IN  IF ~IsSome(row)
        THEN Fail("SymbolNotFoundError", Use(fn, identifier, scope_history, "SymbolNotFoundError"))
        ELSE IF Unwrap(row).kind = "ScopeBlock"
        THEN Fail("panic: Cannot get mutability of scope block",
                  Use(fn, identifier, scope_history, "panic: Cannot get mutability of scope block"))
        ELSE Ok(IF Unwrap(row).kind = "Function" THEN "Constant" ELSE Unwrap(row).mutability,
                Use(fn, identifier, scope_history, "Ok"))

RECURSIVE get_function_param_types(_, _)
get_function_param_types(table, identifier) ==
    IF table = <<>> THEN Fail("SymbolNotFoundError", {})
    ELSE IF get_identifier(Head(table)) = identifier
         THEN IF Head(table).kind = "Function" THEN Ok(Head(table).parameters, {})
              ELSE Fail("IncorrectDatatype", {})
         ELSE get_function_param_types(Tail(table), identifier)

(***************************************************************************)
(* semantics.rs: the validator.                                            *)
(***************************************************************************)
\* a, and when a is Ok then b: the outcome of the two calls in sequence
Then(a, b) == IF ~IsOk(a) THEN a ELSE After(a.uses, b)

\* if found_type != *required_type { return Err(IncorrectDatatype) } on a looked up type
TypeIs(l, required_type) ==
    IF ~IsOk(l) THEN l
    ELSE IF l.val # required_type THEN Fail("IncorrectDatatype", l.uses)
    ELSE Ok("", l.uses)

\* Err(_) => return Err(Box::new(IncorrectDatatype))
AsIncorrectDatatype(r) == IF IsErr(r) THEN Fail("IncorrectDatatype", r.uses) ELSE r

RECURSIVE validate_term_of_type(_, _, _, _), validate_expression_of_type(_, _, _, _)

validate_term_of_type(node, required_type, symbol_table, scope_history) ==
    IF node.kind # "Term"
    THEN Fail("panic: not a valid token for semantic analysis of terms", {})
    ELSE CASE node.child.kind = "Expression" ->
                AsIncorrectDatatype(validate_expression_of_type(node.child, required_type,
                                                                symbol_table, scope_history))
           [] node.child.kind = "Value" ->
                IF node.child.literal_type # required_type
                THEN Fail("IncorrectDatatype", {}) ELSE Ok("", {})
           [] node.child.kind = "Identifier" ->
                TypeIs(get_identifier_type_in_scope(symbol_table, node.child.identifier,
                                                    scope_history),
                       required_type)
           [] node.child.kind = "FunctionCall" ->
                TypeIs(unwrap(get_identifier_type_in_scope(symbol_table, node.child.identifier,
                                                           <<0>>)),
                       required_type)
           [] node.child.kind = "TypeCast" ->
                CASE node.child.from.kind = "Identifier" ->
                       TypeIs(unwrap(get_identifier_type_in_scope(
                                         symbol_table, node.child.from.identifier, scope_history)),
                              required_type)
                  [] node.child.from.kind = "Value" ->
                       IF node.child.from.literal_type # required_type
                       THEN Fail("IncorrectDatatype", {}) ELSE Ok("", {})
                  [] OTHER -> Fail("panic: not a valid target for a cast expression", {})
           [] OTHER -> Fail("panic: not a valid token for semantic analysis of terms", {})

\* the match on the operator, once both sides validated
expression_operator(node, required_type, sides) ==
    IF ~IsOk(sides) THEN sides
    ELSE IF IsSome(node.operator) /\ required_type = "Boolean"
    THEN Fail("panic: is not a valid operator for arguments of type Boolean", sides.uses)
    ELSE Ok("", sides.uses)

validate_expression_of_type(node, required_type, symbol_table, scope_history) ==
    IF node.kind # "Expression" THEN Fail("panic: is not an expression", {})
    ELSE expression_operator(
             node, required_type,
             Then(validate_term_of_type(node.lhs, required_type, symbol_table, scope_history),
                  IF IsSome(node.rhs)
                  THEN validate_term_of_type(Unwrap(node.rhs), required_type, symbol_table,
                                             scope_history)
                  ELSE Ok("", {})))

\* if lhs_type == rhs_type { Ok(lhs_type) } else { panic }
same_type(l, r) ==
    IF ~IsOk(l) THEN l
    ELSE IF ~IsOk(r) THEN After(l.uses, r)
    ELSE IF l.val = r.val THEN Ok(l.val, l.uses \cup r.uses)
    ELSE Fail("panic: Boolean term validation found mismatched datatypes", l.uses \cup r.uses)

RECURSIVE find_valid_type_of_node(_, _, _)
find_valid_type_of_node(node, symbol_table, scope_history) ==
    CASE node.kind = "Expression" ->
           IF IsSome(node.rhs)
           THEN same_type(unwrap(find_valid_type_of_node(node.lhs, symbol_table, scope_history)),
                          unwrap(find_valid_type_of_node(Unwrap(node.rhs), symbol_table,
                                                         scope_history)))
           ELSE unwrap(find_valid_type_of_node(node.lhs, symbol_table, scope_history))
      [] node.kind = "Term" -> find_valid_type_of_node(node.child, symbol_table, scope_history)
      [] node.kind = "Value" -> Ok(node.literal_type, {})
      [] node.kind = "Identifier" ->
           get_identifier_type_in_scope(symbol_table, node.identifier, scope_history)
      [] OTHER -> Fail("panic: is not a valid token in an expression", {})

validate_boolean_operator_with_args(lhs_type, rhs_type, operator) ==
    CASE operator \in {"Equal", "NotEqual"} ->
           IF lhs_type # rhs_type \/ lhs_type = "Void"
           THEN Fail("panic: not valid datatype arguments for boolean operator", {})
           ELSE Ok("", {})
      [] operator \in {"Greater", "GreaterOrEqual", "Less", "LessOrEqual"} ->
           IF lhs_type # rhs_type \/ (lhs_type # "Integer" /\ lhs_type # "Long")
           THEN Fail("panic: not valid datatype arguments for boolean operator", {})
           ELSE Ok("", {})
      [] operator = "Invert" ->
           IF lhs_type # "Boolean" \/ rhs_type # "Void"
           THEN Fail("panic: not a valid argument for boolean operator", {})
           ELSE Ok("", {})

\* the value t of a call that succeeded, after the call v that followed it
Keep(t, v) == IF ~IsOk(v) THEN v ELSE Ok(t.val, v.uses)

\* validate_term_of_type(lhs, &lhs_type, ..).unwrap() at the type found for the term
term_at_found_type(side, t, symbol_table, scope_history) ==
    IF ~IsOk(t) THEN t
    ELSE Keep(t, After(t.uses, unwrap(validate_term_of_type(side, t.val, symbol_table,
                                                            scope_history))))

RECURSIVE validate_boolean_term(_, _, _, _)
\* one side of a boolean term: its type
boolean_term_side(side, required_type, symbol_table, scope_history) ==
    CASE side.kind = "BooleanTerm" ->
           unwrap(validate_boolean_term(side, required_type, symbol_table, scope_history))
      [] side.kind = "Term" ->
           term_at_found_type(side,
                              unwrap(find_valid_type_of_node(side, symbol_table, scope_history)),
                              symbol_table, scope_history)
      [] OTHER -> Fail("panic: is not a valid token in a boolean term", {})

\* the match on the operator of a boolean term, with the types of its sides
boolean_term_operator(node, l, r) ==
    IF ~IsOk(l) THEN l
    ELSE IF ~IsOk(r) THEN After(l.uses, r)
    ELSE IF ~IsSome(node.operator) THEN Ok(l.val, l.uses \cup r.uses)
    ELSE Keep(Ok("Boolean", {}),
              After(l.uses \cup r.uses,
                    unwrap(validate_boolean_operator_with_args(l.val, r.val,
                                                               Unwrap(node.operator)))))

validate_boolean_term(node, required_type, symbol_table, scope_history) ==
    IF node.kind # "BooleanTerm" THEN Fail("panic: is not valid for a boolean term", {})
    ELSE boolean_term_operator(
             node,
             boolean_term_side(node.lhs, required_type, symbol_table, scope_history),
             IF IsSome(node.rhs)
             THEN boolean_term_side(Unwrap(node.rhs), required_type, symbol_table, scope_history)
             ELSE Ok("Void", {}))

RECURSIVE validate_boolean_expr(_, _, _, _)
\* one side of a boolean expression: its type
boolean_expr_side(side, required_type, symbol_table, scope_history) ==
    CASE side.kind = "BooleanExpression" ->
           unwrap(validate_boolean_expr(side, required_type, symbol_table, scope_history))
      [] side.kind = "BooleanTerm" ->
           unwrap(validate_boolean_term(side, required_type, symbol_table, scope_history))
      [] OTHER -> Fail("panic: is not a valid argument to a boolean expression", {})

\* the match on the connector of a boolean expression, with the types of its sides
boolean_expr_connector(node, l, r) ==
    IF ~IsOk(l) THEN l
    ELSE IF ~IsOk(r) THEN After(l.uses, r)
    ELSE IF IsSome(node.connector) /\ (l.val # "Boolean" \/ r.val # "Boolean")
    THEN Fail("panic: not valid arguments for a boolean expression", l.uses \cup r.uses)
    ELSE Ok(l.val, l.uses \cup r.uses)

validate_boolean_expr(node, required_type, symbol_table, scope_history) ==
    IF node.kind # "BooleanExpression" THEN Fail("panic: is not a boolean expression", {})
    ELSE boolean_expr_connector(
             node,
             boolean_expr_side(node.lhs, required_type, symbol_table, scope_history),
             IF IsSome(node.rhs)
             THEN boolean_expr_side(Unwrap(node.rhs), required_type, symbol_table, scope_history)
             ELSE Ok("Boolean", {}))

\* the search for a break that also looks inside the loops of the body
RECURSIVE check_if_has_break_in_loops(_)
check_if_has_break_in_loops(node) ==
    CASE node.kind = "Break" -> TRUE
      [] node.kind \in {"IfElifElseStatement", "IfStatement", "ElseStatement",
                        "IndefLoop", "WhileLoop", "ForLoop"} ->
           \E i \in 1..Len(node.statements) : check_if_has_break_in_loops(node.statements[i])
      [] OTHER -> FALSE

RECURSIVE check_if_has_break(_)
check_if_has_break(node) ==
    CASE node.kind = "Break" -> TRUE
      [] node.kind \in {"IfElifElseStatement", "IfStatement", "ElseStatement"} ->
           \E i \in 1..Len(node.statements) : check_if_has_break(node.statements[i])
      [] OTHER -> FALSE

\* TRUE, or the panic
validate_indef_loop_has_break(node) ==
    IF node.kind # "IndefLoop" THEN Fail("panic: is not an indefinite loop node", {})
    ELSE IF \E i \in 1..Len(node.statements) : check_if_has_break(node.statements[i])
    THEN Ok(TRUE, {})
    ELSE Fail("panic: Indefinite loop must contain a break statement!", {})

RECURSIVE semantic_validation_subtree(_, _, _)

validate_for_loop_part(node, symbol_table, scope_history, control_type) ==
    Then(semantic_validation_subtree(node, symbol_table, scope_history),
         CASE node.kind = "Expression" ->
                validate_expression_of_type(node, control_type, symbol_table, scope_history)
           [] node.kind = "Term" ->
                validate_term_of_type(node, control_type, symbol_table, scope_history)
           [] OTHER -> Fail("panic: is not a valid loop control statement argument", {}))

\* arguments.into_iter().map(..).collect(): the types of the arguments
RECURSIVE arg_types_of(_, _, _, _), arg_types_after(_, _, _, _, _)
arg_types_of(arguments, done, symbol_table, scope_history) ==
    IF arguments = <<>> THEN Ok(done, {})
    ELSE CASE Head(arguments).kind = "Value" ->
                arg_types_of(Tail(arguments), Append(done, Head(arguments).literal_type),
                             symbol_table, scope_history)
           [] Head(arguments).kind = "Identifier" ->
                arg_types_after(unwrap(get_identifier_type_in_scope(
                                           symbol_table, Head(arguments).identifier,
                                           scope_history)),
                                arguments, done, symbol_table, scope_history)
           [] OTHER -> Fail("panic: is not a valid parameter in function call", {})

\* the arguments that follow one whose type l was looked up
arg_types_after(l, arguments, done, symbol_table, scope_history) ==
    IF ~IsOk(l) THEN l
    ELSE After(l.uses, arg_types_of(Tail(arguments), Append(done, l.val), symbol_table,
                                    scope_history))

\* the comparison of the argument types a of a call with the parameter types p
compare_arg_types(p, a) ==
    IF ~IsOk(p) THEN p
    ELSE IF ~IsOk(a) THEN After(p.uses, a)
    ELSE IF Len(a.val) # Len(p.val) THEN Fail("IncorrectNumArguments", p.uses \cup a.uses)
    ELSE IF \E i \in 1..Len(a.val) : p.val[i] # a.val[i]
    THEN Fail("IncorrectDatatype", p.uses \cup a.uses)
    ELSE Ok("", p.uses \cup a.uses)

\* the match on a statement of a function, after the statement was validated
validate_function_statement(statement, return_type, symbol_table, scope_history) ==
    CASE statement.kind = "ReturnStatement" ->
           validate_expression_of_type(statement.expression, return_type, symbol_table,
                                       scope_history)
      [] statement.kind = "FunctionCall" ->
           compare_arg_types(get_function_param_types(symbol_table, statement.identifier),
                             arg_types_of(statement.arguments, <<>>, symbol_table,
                                          scope_history))
      [] OTHER -> Ok("", {})

\* the end of a function without the check for a return
function_return_unchecked(return_type, has_return) == Ok("", {})

\* if return_type != &Type::Void && !has_return { return Err(BadFunctionReturn) }
function_return(return_type, has_return) ==
    IF return_type # "Void" /\ ~has_return THEN Fail("BadFunctionReturn", {}) ELSE Ok("", {})

\* for statement in statements { .. } of a function, from statement i on
RECURSIVE function_statements(_, _, _, _, _), function_statement_pushed(_, _, _, _, _)
function_statements(node, i, symbol_table, scope_history, has_return) ==
    IF i > Len(node.statements) THEN function_return(node.return_type, has_return)
    ELSE function_statement_pushed(
             node, i, symbol_table,
             get_identifier_in_scope(symbol_table, node.identifier, scope_history),
             [history |-> scope_history, has_return |-> has_return])

\* statement i of a function once the scope l of the function was looked up and pushed
function_statement_pushed(node, i, symbol_table, l, before) ==
    IF ~IsOk(l) THEN l
    ELSE After(l.uses,
               Then(Then(semantic_validation_subtree(node.statements[i], symbol_table,
                                                     Append(before.history, l.val)),
                         validate_function_statement(node.statements[i], node.return_type,
                                                     symbol_table,
                                                     Append(before.history, l.val))),
                    function_statements(node, i + 1, symbol_table,
                                        Append(before.history, l.val),
                                        before.has_return
                                            \/ node.statements[i].kind = "ReturnStatement")))

\* .unwrap() on the result of a statement of an if or else arm, ? on that of a loop
unwrap_if(unwrapped, r) == IF unwrapped THEN unwrap(r) ELSE r

\* for statement in statements { scope_history.push(*scope); semantic_validation_subtree(..) }
\* from statement i on.  val is the scope history afterwards.
RECURSIVE block_statements(_, _, _, _, _, _)
block_statements(statements, i, scope, symbol_table, scope_history, unwrapped) ==
    IF i > Len(statements) THEN Ok(scope_history, {})
    ELSE Then(unwrap_if(unwrapped,
                        semantic_validation_subtree(statements[i], symbol_table,
                                                    Append(scope_history, scope))),
              block_statements(statements, i + 1, scope, symbol_table,
                               Append(scope_history, scope), unwrapped))

\* for statement in statements { match statement { IfStatement .. ElseStatement .. } }
RECURSIVE if_elif_else_arms(_, _, _, _), if_elif_else_arms_after(_, _, _, _)
if_elif_else_arms(arms, i, symbol_table, scope_history) ==
    IF i > Len(arms) THEN Ok("", {})
    ELSE CASE arms[i].kind = "IfStatement" ->
                if_elif_else_arms_after(
                    Then(unwrap(validate_boolean_expr(arms[i].condition, "Boolean",
                                                      symbol_table, scope_history)),
                         block_statements(arms[i].statements, 1, arms[i].scope, symbol_table,
                                          scope_history, TRUE)),
                    arms, i, symbol_table)
           [] arms[i].kind = "ElseStatement" ->
                if_elif_else_arms_after(
                    block_statements(arms[i].statements, 1, arms[i].scope, symbol_table,
                                     scope_history, TRUE),
                    arms, i, symbol_table)
           [] OTHER -> Fail("panic: Invalid block if if, else if, else structure", {})

\* the arms that follow arm i, whose statements left the scope history b.val
if_elif_else_arms_after(b, arms, i, symbol_table) ==
    IF ~IsOk(b) THEN b
    ELSE After(b.uses, if_elif_else_arms(arms, i + 1, symbol_table, b.val))

\* if get_mutability_in_scope(..)? != Mutability::Mutable { return Err(..) }, then the rest
when_mutable(m, rest) ==
    IF ~IsOk(m) THEN m
    ELSE IF m.val # "Mutable" THEN Fail("ImmutableReassignmentError", m.uses)
    ELSE After(m.uses, rest)

\* validate_expression_of_type(&value, &var_type, ..)? at the type t looked up
value_of_type(value, t, symbol_table, scope_history) ==
    IF ~IsOk(t) THEN t
    ELSE After(t.uses, validate_expression_of_type(value, t.val, symbol_table, scope_history))

semantic_validation_subtree(node, symbol_table, scope_history) ==
    CASE node.kind = "Function" ->
           function_statements(node, 1, symbol_table, scope_history, FALSE)
      [] node.kind = "VarDeclStatement" ->
           unwrap(validate_expression_of_type(node.value, node.var_type, symbol_table,
                                              scope_history))
      [] node.kind = "VarAssignStatement" ->
           when_mutable(
               get_mutability_in_scope(symbol_table, node.identifier, scope_history),
               Then(get_identifier_in_scope(symbol_table, node.identifier, scope_history),
                    value_of_type(node.value,
                                  unwrap(get_identifier_type_in_scope(
                                             symbol_table, node.identifier, scope_history)),
                                  symbol_table, scope_history)))
      [] node.kind = "IfElifElseStatement" ->
           if_elif_else_arms(node.statements, 1, symbol_table, scope_history)
      [] node.kind = "IndefLoop" ->
           Then(validate_indef_loop_has_break(node),
                block_statements(node.statements, 1, node.scope, symbol_table, scope_history,
                                 FALSE))
      [] node.kind = "ForLoop" ->
           Then(Then(Then(unwrap(validate_for_loop_part(node.control_initial, symbol_table,
                                                        scope_history, node.control_type)),
                          unwrap(validate_for_loop_part(node.limit, symbol_table,
                                                        scope_history, node.control_type))),
                     unwrap(validate_for_loop_part(node.step, symbol_table, scope_history,
                                                   node.control_type))),
                block_statements(node.statements, 1, node.scope, symbol_table, scope_history,
                                 FALSE))
      [] node.kind = "WhileLoop" ->
           block_statements(node.statements, 1, node.scope, symbol_table, scope_history,
                            FALSE)
      [] OTHER -> Ok("", {})

\* for node in root { semantic_validation_subtree(&node, symbol_table, &vec![0])?; }
RECURSIVE semantic_validation(_, _)
semantic_validation(root, symbol_table) ==
    IF root = <<>> THEN Ok("", {})
    ELSE Then(semantic_validation_subtree(Head(root), symbol_table, <<0>>),
              semantic_validation(Tail(root), symbol_table))

(***************************************************************************)
(* intermediate_gen.rs: the emitter.  Its state e is the instructions, the *)
(* memory map, the label context, the two static counters and the message  *)
(* of the panic, if one happened.                                          *)
(***************************************************************************)
Instr(op) == [op |-> op]
InstrOf(op, arg) == [op |-> op, arg |-> arg]
StoreInstr(t, address) == [op |-> "Store", type |-> t, address |-> address]
LoadInstr(t, address) == [op |-> "Load", type |-> t, address |-> address]
PushInstr(t, argument) == [op |-> "Push", type |-> t, argument |-> argument]

AddrTypePair(address, var_type) == [address |-> address, var_type |-> var_type]

LabelContext_new ==
    [ieie_return_label |-> None, loop_break_label |-> None, loop_continue_label |-> None]

gen_operator_code(operator) ==
    CASE operator = "Addition" -> Instr("Add")
      [] operator = "Subtraction" -> Instr("Sub")
      [] operator = "Multiplication" -> Instr("Mult")
      [] operator = "Division" -> Instr("Div")
      [] operator = "Complement" -> Instr("Complement")
      [] operator = "NegateNumerical" -> Instr("NumNeg")
      [] operator = "NegateLogical" -> Instr("LogicNeg")
      [] operator = "And" -> Instr("BitwiseAnd")
      [] operator = "Or" -> Instr("BitwiseOr")
      [] operator = "XOr" -> Instr("BitwiseXor")
      [] operator = "LeftShiftLogical" -> Instr("LeftShiftLogical")
      [] operator = "LeftShiftArithmetic" -> Instr("LeftShiftArithmetic")
      [] operator = "RightShiftLogical" -> Instr("RightShiftLogical")

gen_boolean_operator_code(operator) ==
    CASE operator = "Equal" -> Instr("Equal")
      [] operator = "NotEqual" -> Instr("NotEqual")
      [] operator = "Greater" -> Instr("GreaterThan")
      [] operator = "GreaterOrEqual" -> Instr("GreaterEqual")
      [] operator = "Less" -> Instr("LessThan")
      [] operator = "LessOrEqual" -> Instr("LessEqual")
      [] operator = "Invert" -> Instr("LogicNeg")

gen_boolean_connector_code(connector) ==
    CASE connector = "And" -> Instr("LogicAnd")
      [] connector = "Or" -> Instr("LogicOr")
      [] connector = "XOr" -> Instr("LogicXor")

get_var_repr(func_id, id) == func_id \o "_" \o id

\* format!("{:x}", n): the digits of n in base 16
HexDigits == <<"0", "1", "2", "3", "4", "5", "6", "7", "8", "9", "a", "b", "c", "d", "e", "f">>
RECURSIVE LowerHex(_)
LowerHex(n) ==
    IF n < 16 THEN HexDigits[n + 1] ELSE LowerHex(n \div 16) \o HexDigits[(n % 16) + 1]

\* get_next_label with a load of the counter in place of the fetch_add
get_next_label_load(next_label) ==
    [label |-> "_" \o LowerHex(next_label), NEXT_LABEL |-> next_label]

\* get_next_label: the label, and the counter afterwards
get_next_label(next_label) == [label |-> "_" \o LowerHex(next_label), NEXT_LABEL |-> next_label + 1]

\* the steps of the emitter; after a panic nothing more happens
push(e, instr) == IF e.panic # "" THEN e ELSE [e EXCEPT !.instructions = Append(@, instr)]
insert(e, key, pair) == IF e.panic # "" THEN e ELSE [e EXCEPT !.memory_map = (key :> pair) @@ @]
emitter_panic(e, message) == IF e.panic # "" THEN e ELSE [e EXCEPT !.panic = message]
\* let label = get_next_label(): the state afterwards
take_label(e) ==
    IF e.panic # "" THEN e ELSE [e EXCEPT !.NEXT_LABEL = get_next_label(@).NEXT_LABEL]
\* an address taken without advancing the counter
take_address_kept(e) == e
\* let address = NEXT_ADDRESS.fetch_add(1, ..): the state afterwards
take_address(e) == IF e.panic # "" THEN e ELSE [e EXCEPT !.NEXT_ADDRESS = @ + 1]
update_ieie(e, label) ==
    IF e.panic # "" THEN e ELSE [e EXCEPT !.label_context.ieie_return_label = Some(label)]
update_break(e, label) ==
    IF e.panic # "" THEN e ELSE [e EXCEPT !.label_context.loop_break_label = Some(label)]
update_continue(e, label) ==
    IF e.panic # "" THEN e ELSE [e EXCEPT !.label_context.loop_continue_label = Some(label)]
\* memory_map.get(&get_var_repr(func_name, identifier)).unwrap(), then push of Load or Store
push_with_metadata(e, op, func_name, identifier) ==
    LET key == get_var_repr(func_name, identifier)
    IN  IF e.panic # "" THEN e
        ELSE IF key \notin DOMAIN e.memory_map THEN emitter_panic(e, "unwrap on None")
        ELSE push(e, [op |-> op, type |-> e.memory_map[key].var_type,
                      address |-> e.memory_map[key].address])
\* push of a jump to an optional label of the context, unwrapped
push_jump_to(e, label) ==
    IF ~IsSome(label) THEN emitter_panic(e, "unwrap on None")
    ELSE push(e, InstrOf("Jump", Unwrap(label)))

RECURSIVE gen_intermediate_code(_, _, _, _), gen_each(_, _, _, _)
\* for x in xs { gen_intermediate_code(x, ..) }
gen_each(nodes, e, primitive_type, func_name) ==
    IF nodes = <<>> \/ e.panic # "" THEN e
    ELSE gen_each(Tail(nodes), gen_intermediate_code(Head(nodes), e, primitive_type, func_name),
                  primitive_type, func_name)

\* gen_intermediate_code(rhs, ..) for an Option
gen_option(node, e, func_name) ==
    IF IsSome(node) THEN gen_intermediate_code(Unwrap(node), e, None, func_name) ELSE e

gen_loop(root, e, func_name) ==
    LET first == get_next_label(e.NEXT_LABEL).label
        second == get_next_label(take_label(e).NEXT_LABEL).label
        labelled == update_break(update_continue(take_label(take_label(e)), first), second)
        started == push(labelled, InstrOf("Label", first))
    IN  CASE root.kind = "IndefLoop" ->
               push(push(gen_each(root.statements, started, None, func_name),
                         InstrOf("Jump", first)),
                    InstrOf("Label", second))
          [] root.kind = "WhileLoop" ->
               LET c == push(gen_intermediate_code(root.condition, started, None, func_name),
                             InstrOf("JumpZero", second))
               IN  push(push(gen_each(root.statements, c, None, func_name),
                             InstrOf("Jump", first)),
                        InstrOf("Label", second))

gen_for_loop(root, e, func_name) ==
    LET init == gen_intermediate_code(root.control_initial, e, None, func_name)
        address == init.NEXT_ADDRESS
        stored == push(insert(take_address(init), get_var_repr(func_name, root.control_identifier),
                              AddrTypePair(address, root.control_type)),
                       StoreInstr(root.control_type, address))
        start_label == get_next_label(stored.NEXT_LABEL).label
        return_label == get_next_label(take_label(stored).NEXT_LABEL).label
        started == push(update_break(update_continue(take_label(take_label(stored)), start_label),
                                     return_label),
                        InstrOf("Label", start_label))
        cond == push(push(gen_intermediate_code(root.limit, started, None, func_name),
                          Instr("GreaterThan")),
                     InstrOf("JumpNotZero", return_label))
        body == gen_each(root.statements, cond, None, func_name)
        step == gen_intermediate_code(root.step, body, None, func_name)
        added == push(push_with_metadata(step, "Load", func_name, root.control_identifier),
                      Instr("Add"))
        saved == push_with_metadata(added, "Store", func_name, root.control_identifier)
    IN  push(push(saved, InstrOf("Jump", start_label)), InstrOf("Label", return_label))

gen_intermediate_code(root, e, primitive_type, func_name) ==
    IF e.panic # "" THEN e
    ELSE
    CASE root.kind = "Function" ->
           LET started == push(e, InstrOf("FuncStart", root.identifier))
               params == gen_each(root.parameters, started, None, root.identifier)
               stmts == gen_each(root.statements, params, Some(root.return_type),
                                 root.identifier)
           IN  push(stmts, InstrOf("FuncEnd", root.identifier))
      [] root.kind = "ReturnStatement" ->
           LET v == gen_intermediate_code(root.expression, e, None, func_name)
           IN  IF ~IsSome(primitive_type) THEN emitter_panic(v, "unwrap on None")
               ELSE push(v, InstrOf("Return", Unwrap(primitive_type)))
      [] root.kind = "VarDeclStatement" ->
           IF root.value.kind \notin {"Expression", "TernaryExpression"}
           THEN emitter_panic(e, "Cannot generate intermdeiate code in variable assignment")
           ELSE LET v == gen_intermediate_code(root.value, e, None, func_name)
                    address == v.NEXT_ADDRESS
                IN  push(insert(take_address(v), get_var_repr(func_name, root.identifier),
                                AddrTypePair(address, root.var_type)),
                         StoreInstr(root.var_type, address))
      [] root.kind = "VarAssignStatement" ->
           IF root.value.kind = "Expression"
           THEN push_with_metadata(gen_intermediate_code(root.value, e, None, func_name),
                                   "Store", func_name, root.identifier)
           ELSE e
      [] root.kind = "Expression" ->
           LET l == gen_intermediate_code(root.lhs, e, None, func_name)
               r == gen_option(root.rhs, l, func_name)
           IN  IF IsSome(root.operator) THEN push(r, gen_operator_code(Unwrap(root.operator)))
               ELSE r
      [] root.kind = "Term" -> gen_intermediate_code(root.child, e, None, func_name)
      [] root.kind = "Value" -> push(e, PushInstr(root.literal_type, root.value))
      [] root.kind = "Identifier" -> push_with_metadata(e, "Load", func_name, root.identifier)
      [] root.kind = "Parameter" ->
           insert(take_address(e), get_var_repr(func_name, root.identifier),
                  AddrTypePair(e.NEXT_ADDRESS, root.param_type))
      [] root.kind = "FunctionCall" ->
           push(gen_each(root.arguments, e, None, func_name), InstrOf("Call", root.identifier))
      [] root.kind = "IfElifElseStatement" ->
           LET return_label == get_next_label(e.NEXT_LABEL).label
               arms == gen_each(root.statements, update_ieie(take_label(e), return_label),
                                None, func_name)
           IN  push(arms, InstrOf("Label", return_label))
      [] root.kind = "IfStatement" ->
           LET label == get_next_label(e.NEXT_LABEL).label
               c == push(gen_intermediate_code(root.condition, take_label(e), None, func_name),
                         InstrOf("JumpZero", label))
               body == gen_each(root.statements, c, None, func_name)
           IN  push(push_jump_to(body, body.label_context.ieie_return_label),
                    InstrOf("Label", label))
      [] root.kind = "ElseStatement" -> gen_each(root.statements, e, None, func_name)
      [] root.kind = "BooleanExpression" ->
           LET l == gen_intermediate_code(root.lhs, e, None, func_name)
               r == gen_option(root.rhs, l, func_name)
               o == IF IsSome(root.operator)
                    THEN push(r, gen_boolean_operator_code(Unwrap(root.operator))) ELSE r
           IN  IF IsSome(root.connector)
               THEN push(o, gen_boolean_connector_code(Unwrap(root.connector))) ELSE o
      [] root.kind = "BooleanTerm" ->
           LET l == gen_intermediate_code(root.lhs, e, None, func_name)
               r == gen_option(root.rhs, l, func_name)
           IN  IF IsSome(root.operator)
               THEN push(r, gen_boolean_operator_code(Unwrap(root.operator))) ELSE r
      [] root.kind \in {"IndefLoop", "WhileLoop"} -> gen_loop(root, e, func_name)
      [] root.kind = "ForLoop" -> gen_for_loop(root, e, func_name)
      [] root.kind = "Break" -> push_jump_to(e, e.label_context.loop_break_label)
      [] root.kind = "Continue" -> push_jump_to(e, e.label_context.loop_continue_label)
      [] root.kind = "TernaryExpression" ->
           LET return_label == get_next_label(e.NEXT_LABEL).label
               false_label == get_next_label(take_label(e).NEXT_LABEL).label
               c == push(gen_intermediate_code(root.condition, take_label(take_label(e)), None,
                                               func_name),
                         InstrOf("JumpZero", false_label))
               t == push(push(gen_intermediate_code(root.if_true, c, None, func_name),
                              InstrOf("Jump", return_label)),
                         InstrOf("Label", false_label))
           IN  push(gen_intermediate_code(root.if_false, t, None, func_name),
                    InstrOf("Label", return_label))

\* for top_level in ast { gen_intermediate_code(&top_level, .., "global", &mut context.clone()) }
RECURSIVE generate_program_intermediate(_, _)
generate_program_intermediate(root, e) ==
    IF root = <<>> \/ e.panic # "" THEN e
    ELSE generate_program_intermediate(
             Tail(root),
             gen_intermediate_code(Head(root), [e EXCEPT !.label_context = LabelContext_new],
                                   None, "global"))

(***************************************************************************)
(* backend/mips.rs: the lowering to MIPS.  A line of assembly is the text  *)
(* of its format string, with the value substituted for {} when it has     *)
(* one.  Its state m is the lines, the map from local address to offset,   *)
(* the running offset, the stack of operand types and the message of the   *)
(* panic.                                                                  *)
(***************************************************************************)
Line(text) == [text |-> text]
LineWith(text, arg) == [text |-> text, arg |-> arg]

\* the function a variable row belongs to: the function row at the top of its parents
RECURSIVE function_id(_)
function_id(row) ==
    IF row.parent.kind = "Function" THEN row.parent.identifier ELSE function_id(row.parent)

\* for symbol in &symbol_table.rows { .. }: the size, or None at a todo!()
RECURSIVE frame_size_from(_, _, _)
frame_size_from(table, function, frame_size) ==
    IF table = <<>> THEN Some(frame_size)
    ELSE IF Head(table).kind # "Variable" THEN frame_size_from(Tail(table), function, frame_size)
    ELSE IF function_id(Head(table)) # function
    THEN frame_size_from(Tail(table), function, frame_size)
    ELSE CASE Head(table).primitive_type = "Integer" ->
                frame_size_from(Tail(table), function, frame_size + 4)
           [] Head(table).primitive_type = "Long" ->
                frame_size_from(Tail(table), function, frame_size + 8)
           [] OTHER -> None

\* let mut frame_size = 8; // make space for the return address
get_frame_size(function, symbol_table) == frame_size_from(symbol_table, function, 8)

mips_push(m, lines) == [m EXCEPT !.mips_instrs = @ \o lines]
mips_panic(m, message) == [m EXCEPT !.panic = message]
types_push(m, t) == [m EXCEPT !.stack_types = Append(@, t)]
\* stack_types.pop();
types_pop(m) ==
    IF m.stack_types = <<>> THEN m
    ELSE [m EXCEPT !.stack_types = SubSeq(@, 1, Len(@) - 1)]
\* stack_types.last()
types_last(m) == IF m.stack_types = <<>> THEN None ELSE Some(m.stack_types[Len(m.stack_types)])

\* FuncStart once the frame size is known
func_start(m, name, frame_size) ==
    IF ~IsSome(frame_size) THEN mips_panic(m, "not yet implemented, src/backend/mips.rs:36")
    ELSE mips_push(m, <<LineWith("{}: # start func", name),
                        Line("move $fp, $sp"),
                        LineWith("addiu $sp, $sp, -{}", Unwrap(frame_size)),
                        Line("sw $ra, 0($sp)")>>)

\* the allocation that takes place at every store
allocate_always(m, id, width) ==
    [m EXCEPT !.current_var_offset = @ + width,
              !.stack_id_offset_map = (id :> (m.current_var_offset + width)) @@ @]

\* if !stack_id_offset_map.contains_key(&id) { current_var_offset += ..; insert(..) }
allocate(m, id, width) ==
    IF id \in DOMAIN m.stack_id_offset_map THEN m
    ELSE [m EXCEPT !.current_var_offset = @ + width,
                   !.stack_id_offset_map = (id :> (m.current_var_offset + width)) @@ @]

\* the lines of a store, once the slot is there
store_lines(m, var_type, id) ==
    IF var_type = "Integer"
    THEN <<Line("addi $sp, $sp, 4 # store int"),
           Line("lw $t0, 0($sp)"),
           LineWith("sw $t0, -{}($fp)", m.stack_id_offset_map[id])>>
    ELSE <<Line("addi $sp, $sp, 8 # store long"),
           Line("lw $t0, 0($sp)"),
           Line("lw $t1, -4($sp)"),
           LineWith("sw $t0, -{}($fp)", m.stack_id_offset_map[id]),
           LineWith("sw $t1, -{}($fp)", m.stack_id_offset_map[id] - 4)>>

stored(m, var_type, id) == types_pop(mips_push(m, store_lines(m, var_type, id)))

store(m, var_type, id) ==
    CASE var_type = "Integer" -> stored(allocate(m, id, 4), var_type, id)
      [] var_type = "Long" -> stored(allocate(m, id, 8), var_type, id)
      [] OTHER -> mips_panic(m, "not yet implemented: Only int is currently supported for "
                                \o "store instructions!, src/backend/mips.rs:135")

load_lines(var_type, offset) ==
    IF var_type = "Integer"
    THEN <<LineWith("lw $t0, -{}($fp) # load int", offset),
           Line("sw $t0, 0($sp)"),
           Line("subi $sp, $sp, 4")>>
    ELSE <<LineWith("lw $t0, -{}($fp) # load long", offset),
           LineWith("lw $t1, -{}($fp)", offset - 4),
           Line("sw $t0, 0($sp)"),
           Line("sw $t1, -4($sp)"),
           Line("subi $sp, $sp, 8")>>

load(m, var_type, id) ==
    IF var_type \notin {"Integer", "Long"}
    THEN mips_panic(m, "not yet implemented: Only int is currently supported for "
                       \o "store instructions!, src/backend/mips.rs:161")
    ELSE IF id \notin DOMAIN m.stack_id_offset_map
    THEN mips_panic(types_push(m, var_type), "unwrap on None, src/backend/mips.rs:144")
    ELSE mips_push(types_push(m, var_type), load_lines(var_type, m.stack_id_offset_map[id]))

\* Push(_, var): the match is on the argument
mips_push_value(m, argument) ==
    CASE argument.kind = "Integer" ->
           mips_push(types_push(m, "Integer"),
                     <<LineWith("li $t4, {:?} # push int", argument.v),
                       Line("sw $t4, 0($sp)"),
                       Line("subi $sp, $sp, 4")>>)
      [] argument.kind = "Long" ->
           \* the high and the low word of the value, each as a word of 32 bits
           mips_push(types_push(m, "Long"),
                     <<LineWith("li $t4, {:?} # push long", IF argument.v < 0 THEN -1 ELSE 0),
                       LineWith("li $t5, {:?}", argument.v),
                       Line("sw $t4, 0($sp)"),
                       Line("sw $t5, -4($sp)"),
                       Line("subi $sp, $sp, 8")>>)
      [] OTHER -> mips_panic(m, "not yet implemented, src/backend/mips.rs:99")

mips_return(m, return_type) ==
    CASE return_type = "Integer" ->
           types_pop(mips_push(m, <<Line("addi $sp, $sp, 4 # return int"),
                                    Line("lw $a0, 0($sp)")>>))
      [] return_type = "Long" ->
           types_pop(mips_push(m, <<Line("addi $sp, $sp, 8 # return long"),
                                    Line("lw $a0, 0($sp)"),
                                    Line("lw $a1, -4($sp)")>>))
      [] OTHER -> mips_panic(m, "not yet implemented, src/backend/mips.rs:178")

\* the operators that pop the type of their operands, and those that look at it
PoppingOperators ==
    {"Add", "Sub", "Mult", "Div", "BitwiseAnd", "BitwiseOr", "BitwiseXor", "LeftShiftLogical",
     "RightShiftLogical", "RightShiftArithmetic", "Equal", "NotEqual", "GreaterThan",
     "GreaterEqual", "LessThan", "LessEqual", "LogicAnd", "LogicOr", "LogicXor"}
PeekingOperators == {"NumNeg", "Complement", "LogicNeg"}

\* the lines of an operator at a type: moves between the operand stack and $t0..$t3 around
\* the operation, which name no label, no offset from $fp and no frame size
operator_lines(op, operand_type) == <<LineWith("# {} {}", <<op, operand_type>>)>>

\* match operand_type { Type::Integer => .., Type::Long => .., _ => todo!() }
operator_at(m, op, operand_type) ==
    IF ~IsSome(operand_type) THEN mips_panic(m, "unwrap on None, at " \o op)
    ELSE IF Unwrap(operand_type) \notin {"Integer", "Long"}
    THEN mips_panic(m, "not yet implemented, at " \o op)
    ELSE mips_push(m, operator_lines(op, Unwrap(operand_type)))

jump_zero_at(m, label, operand_type) ==
    IF ~IsSome(operand_type) THEN mips_panic(m, "unwrap on None, src/backend/mips.rs:944")
    ELSE CASE Unwrap(operand_type) = "Integer" ->
                mips_push(m, <<Line("addi $sp, $sp, 4 # jump zero int"),
                               Line("lw $t0, 0($sp)"),
                               LineWith("bnez $t0, {}", label)>>)
           [] Unwrap(operand_type) = "Long" ->
                mips_push(m, <<Line("addi $sp, $sp, 8 # jump zero long"),
                               Line("lw $t0, 0($sp)"),
                               Line("lw $t1, -4($sp)"),
                               Line("seq $t0, $t0, $zero"),
                               Line("seq $t1, $t1, $zero"),
                               Line("and $t0, $t0, $t1"),
                               Line("move $t1, $zero"),
                               LineWith("bnez $t0, {}", label)>>)
           [] OTHER -> mips_panic(m, "not yet implemented, src/backend/mips.rs:964")

\* match instr { .. }: one turn of the loop over the intermediate code
lower(m, instr, symbol_table) ==
    CASE instr.op = "FuncStart" -> func_start(m, instr.arg, get_frame_size(instr.arg, symbol_table))
      [] instr.op = "Push" -> mips_push_value(m, instr.argument)
      [] instr.op = "Store" -> store(m, instr.type, instr.address)
      [] instr.op = "Load" -> load(m, instr.type, instr.address)
      [] instr.op = "Return" -> mips_return(m, instr.arg)
      [] instr.op \in PoppingOperators -> operator_at(types_pop(m), instr.op, types_last(m))
      [] instr.op \in PeekingOperators -> operator_at(m, instr.op, types_last(m))
      [] instr.op = "JumpZero" -> jump_zero_at(types_pop(m), instr.arg, types_last(m))
      [] instr.op = "Jump" -> mips_push(m, <<LineWith("j {}", instr.arg)>>)
      [] instr.op = "Label" -> mips_push(m, <<LineWith("{}:", instr.arg)>>)
      [] OTHER -> m

\* for instr in intermediate_code { .. }
RECURSIVE lower_each(_, _, _)
lower_each(m, intermediate_code, symbol_table) ==
    IF intermediate_code = <<>> \/ m.panic # "" THEN m
    ELSE lower_each(lower(m, Head(intermediate_code), symbol_table), Tail(intermediate_code),
                    symbol_table)

\* the lines with the library at the head, before the jump to main
start_after_library(library) ==
    library \o <<Line("j main # start program execution")>>

\* mips_instrs.push("j main ..."); mips_instrs.append(&mut add_library("math64_mips"));
start_of_program(library) ==
    <<Line("j main # start program execution")>> \o library

\* the three pushes after the loop
end_of_program(m) ==
    IF m.panic # "" THEN m
    ELSE mips_push(m, <<Line("end:"), Line("li $v0, 10 # halt syscall"), Line("syscall")>>)

\* generate_mips; library is what add_library returned, None when the file would not open
generate_mips(intermediate_code, symbol_table, library) ==
    IF ~IsSome(library)
    THEN [mips_instrs |-> <<Line("j main # start program execution")>>,
          stack_id_offset_map |-> <<>>, current_var_offset |-> 0, stack_types |-> <<>>,
          panic |-> "unwrap on Err: add_library"]
    ELSE end_of_program(
             lower_each([mips_instrs |-> start_of_program(Unwrap(library)),
                         stack_id_offset_map |-> <<>>, current_var_offset |-> 0,
                         stack_types |-> <<>>, panic |-> ""],
                        intermediate_code, symbol_table))

(***************************************************************************)
(* The programs compiled: every function body of at most MaxNodes          *)
(* statement nodes over the statements and blocks of a family.  A family   *)
(* names the statements (leaves), the statements allowed inside a loop     *)
(* only (break, continue), the blocks, and the functions around the body.  *)
(***************************************************************************)
IntTerm(n) == Term(Value("Integer", Literal("Integer", n)))
BoolTerm(b) == Term(Value("Boolean", Literal("Boolean", b)))
VarTerm(id) == Term(Identifier(id))
\* get_expr_from_expr_or_term on a term
ExprOf(term) == Expression(term, None, None)
\* the condition `true`
CondTrue == BooleanExpression(BooleanTerm(BoolTerm(TRUE), None, None), None, None, None)
\* the condition `1 == 1`
CondEqual ==
    BooleanExpression(BooleanTerm(IntTerm(1), Some("Equal"), Some(IntTerm(1))), None, None, None)
\* the condition `1`
CondInt == BooleanExpression(BooleanTerm(IntTerm(1), None, None), None, None, None)
\* build_ast_from_for_loop with no step given: a literal 1 of the control type
DefaultStep(control_type) == Term(Value(control_type, Literal("Integer", 1)))

MkBlock(kind, b1, b2) ==
    CASE kind = "if" -> IfElifElseStatement(<<IfStatement(CondTrue, b1, 0)>>)
      [] kind = "if_else" ->
           IfElifElseStatement(<<IfStatement(CondTrue, b1, 0), ElseStatement(b2, 0)>>)
      [] kind = "if_elif" ->
           IfElifElseStatement(<<IfStatement(CondTrue, b1, 0), IfStatement(CondTrue, b2, 0)>>)
      [] kind = "if_eq" -> IfElifElseStatement(<<IfStatement(CondEqual, b1, 0)>>)
      [] kind = "if_int" -> IfElifElseStatement(<<IfStatement(CondInt, b1, 0)>>)
      [] kind = "while_int" -> WhileLoop(CondInt, b1, 0)
      [] kind = "indef" -> IndefLoop(b1, 0)
      [] kind = "while" -> WhileLoop(CondTrue, b1, 0)
      [] kind = "for" -> ForLoop("Integer", "i", IntTerm(1), IntTerm(3), DefaultStep("Integer"), b1, 0)
      [] kind = "for_bool" ->
           ForLoop("Boolean", "i", BoolTerm(TRUE), BoolTerm(TRUE), DefaultStep("Boolean"), b1, 0)

LoopKinds == {"indef", "while", "while_int", "for", "for_bool"}
TwoArmKinds == {"if_else", "if_elif"}

RECURSIVE StmtsOfSize(_, _, _), SeqsOfSize(_, _, _)
\* the statements of exactly n nodes
StmtsOfSize(F, n, in_loop) ==
    (IF n = 1 THEN F.leaves \cup (IF in_loop THEN F.loop_leaves ELSE {}) ELSE {})
    \cup UNION { { MkBlock(k, b, <<>>) : b \in SeqsOfSize(F, n - 1, in_loop \/ k \in LoopKinds) }
                 : k \in F.blocks \ TwoArmKinds }
    \cup UNION { UNION { { MkBlock(k, b1, b2) : b1 \in SeqsOfSize(F, j, in_loop),
                                                 b2 \in SeqsOfSize(F, n - 1 - j, in_loop) }
                         : j \in 0..(n - 1) }
                 : k \in F.blocks \cap TwoArmKinds }

\* the statement sequences of exactly n nodes in all
SeqsOfSize(F, n, in_loop) ==
    IF n = 0 THEN {<<>>}
    ELSE UNION { { <<s>> \o rest : s \in StmtsOfSize(F, j, in_loop),
                                   rest \in SeqsOfSize(F, n - j, in_loop) }
                 : j \in 1..n }

Bodies(F, n) == UNION { SeqsOfSize(F, j, FALSE) : j \in 0..n }

DeclConstX == VarDeclStatement("Integer", "Constant", "x", ExprOf(IntTerm(1)))
DeclMutX == VarDeclStatement("Integer", "Mutable", "x", ExprOf(IntTerm(1)))
AssignX == VarAssignStatement("x", ExprOf(IntTerm(2)))
ReturnInt == ReturnStatement(ExprOf(IntTerm(0)))
ReturnBool == ReturnStatement(ExprOf(BoolTerm(TRUE)))
CallAdd(args) == FunctionCall("add", args)
ReturnCall(args) == ReturnStatement(ExprOf(Term(CallAdd(args))))
ArgInt == Value("Integer", Literal("Integer", 2))
ArgBool == Value("Boolean", Literal("Boolean", TRUE))

\* int add(int a, int b) { return a + b; }
AddFn == Function("Integer", "add", <<Parameter("Integer", "a"), Parameter("Integer", "b")>>,
                  <<ReturnStatement(Expression(VarTerm("a"), Some("Addition"), Some(VarTerm("b"))))>>, 0)

\* blocks and scopes: a declaration among ifs, while and for loops
ScopeFamily ==
    [leaves |-> {DeclMutX}, loop_leaves |-> {}, blocks |-> {"if", "while", "for"}]
ScopePrograms ==
    { <<Function("Void", "main", <<>>, b, 0)>> : b \in Bodies(ScopeFamily, MaxNodes) }

\* declarations and assignments of x among ifs, with x a parameter or not
MutFamily ==
    [leaves |-> {DeclConstX, DeclMutX, AssignX}, loop_leaves |-> {}, blocks |-> {"if"}]
MutPrograms ==
    { <<Function("Void", "main", <<>>, b, 0)>> : b \in Bodies(MutFamily, MaxNodes + 1) }
    \cup { <<Function("Void", "main", <<Parameter("Integer", "x")>>, b, 0)>> :
             b \in Bodies(MutFamily, MaxNodes) }

\* a variable with the name the table gives to the first block of main
NameFamily ==
    [leaves |-> {VarDeclStatement("Integer", "Mutable", "main_2", ExprOf(IntTerm(1))),
                 VarAssignStatement("main_2", ExprOf(IntTerm(2)))},
     loop_leaves |-> {}, blocks |-> {"if"}]
NamePrograms ==
    { <<Function("Void", "main", <<>>, b, 0)>> : b \in Bodies(NameFamily, MaxNodes) }

\* returns and calls of add among ifs, in a main that returns void or int
ReturnFamily ==
    [leaves |-> {ReturnInt, ReturnBool, ReturnCall(<<ArgInt>>), CallAdd(<<ArgInt, ArgInt>>),
                 CallAdd(<<ArgInt>>), CallAdd(<<ArgBool, ArgInt>>)},
     loop_leaves |-> {}, blocks |-> {"if"}]
ReturnPrograms ==
    { <<AddFn, Function(rt, "main", <<>>, b, 0)>> :
        rt \in {"Void", "Integer"}, b \in Bodies(ReturnFamily, MaxNodes) }

\* breaks among ifs, indefinite loops and for loops over a bool
LoopFamily ==
    [leaves |-> {}, loop_leaves |-> {Break}, blocks |-> {"if", "if_else", "indef", "for_bool"}]
LoopPrograms ==
    { <<Function("Void", "main", <<>>, b, 0)>> : b \in Bodies(LoopFamily, MaxNodes) }

\* one cascade of two arms after the other, enough of them for labels of two digits
RECURSIVE Cascades(_)
Cascades(n) == IF n = 0 THEN <<>> ELSE <<MkBlock("if_elif", <<>>, <<>>)>> \o Cascades(n - 1)
LabelPrograms ==
    { <<Function("Void", "main", <<>>, Cascades(n), 0)>> : n \in 1..(2 * MaxNodes) }

\* breaks and continues among ifs, while loops and for loops, nested one level deeper
NestFamily ==
    [leaves |-> {}, loop_leaves |-> {Break, Continue}, blocks |-> {"if", "while", "for"}]
NestPrograms ==
    { <<Function("Void", "main", <<>>, b, 0)>> : b \in Bodies(NestFamily, MaxNodes + 1) }

\* what the backend lowers: int and long variables, their use, ifs on a comparison of ints
\* and for loops, in main alone or in a function before main
DeclLongY == VarDeclStatement("Long", "Mutable", "y", ExprOf(Term(Value("Long", Literal("Long", 2)))))
DeclBoolB == VarDeclStatement("Boolean", "Mutable", "b", ExprOf(BoolTerm(TRUE)))
DeclZFromX == VarDeclStatement("Integer", "Mutable", "z", ExprOf(VarTerm("x")))
MipsFamily ==
    [leaves |-> {DeclMutX, DeclLongY, DeclZFromX, DeclBoolB, AssignX}, loop_leaves |-> {},
     blocks |-> {"if_eq", "for"}]
MipsPrograms ==
    { <<Function("Void", "main", <<>>, b, 0)>> : b \in Bodies(MipsFamily, MaxNodes) }
    \cup { <<Function("Void", "f", <<>>, b, 0), Function("Void", "main", <<>>, <<DeclMutX>>, 0)>> :
              b \in Bodies(MipsFamily, MaxNodes) }

\* one declaration of each type from a literal, or from an operator on literals
LitTerm(t) ==
    Term(Value(t, CASE t = "Integer" -> Literal("Integer", 1)
                    [] t = "Long" -> Literal("Long", 2)
                    [] t = "Char" -> Literal("Char", "a")
                    [] t = "Boolean" -> Literal("Boolean", TRUE)))
DeclTypes == {"Integer", "Long", "Char", "Boolean"}
OperandTypes == {"Integer", "Char", "Boolean"}
ExprValues ==
    { Expression(LitTerm(l), None, None) : l \in OperandTypes }
    \cup { Expression(LitTerm(l), Some("NegateNumerical"), None) : l \in OperandTypes }
    \cup { Expression(LitTerm(l), Some(op), Some(LitTerm(r))) :
              l \in OperandTypes, op \in {"Addition", "And"}, r \in OperandTypes }
ExprPrograms ==
    { <<Function("Void", "main", <<>>, <<VarDeclStatement(t, "Mutable", "v", e)>>, 0)>> :
        t \in DeclTypes, e \in ExprValues }

\* ifs and while loops on a condition that is an int, or a comparison of ints
CondFamily ==
    [leaves |-> {DeclMutX}, loop_leaves |-> {}, blocks |-> {"if_int", "while_int", "if_eq"}]
CondPrograms ==
    { <<Function("Void", "main", <<>>, b, 0)>> : b \in Bodies(CondFamily, MaxNodes) }

\* a declaration of x and an assignment to x among the arms of cascades
ArmFamily ==
    [leaves |-> {DeclMutX, AssignX}, loop_leaves |-> {}, blocks |-> {"if_else", "if_elif"}]
ArmPrograms ==
    { <<Function("Void", "main", <<>>, b, 0)>> : b \in Bodies(ArmFamily, MaxNodes) }

\* an int x and a bool x declared and assigned in a function and in the ifs nested in it
DeclBoolX == VarDeclStatement("Boolean", "Mutable", "x", ExprOf(BoolTerm(TRUE)))
ShadowFamily ==
    [leaves |-> {DeclMutX, DeclBoolX, AssignX}, loop_leaves |-> {}, blocks |-> {"if"}]
ShadowPrograms ==
    { <<Function("Void", "main", <<>>, b, 0)>> : b \in Bodies(ShadowFamily, MaxNodes + 1) }

Programs ==
    ScopePrograms \cup MutPrograms \cup NamePrograms \cup ReturnPrograms \cup LoopPrograms
    \cup LabelPrograms \cup NestPrograms \cup MipsPrograms \cup ExprPrograms
    \cup CondPrograms \cup ArmPrograms \cup ShadowPrograms

(***************************************************************************)
(* main.rs                                                                 *)
(***************************************************************************)
Init ==
    /\ pc = "parse"
    /\ source \in Programs
    /\ entries = <<>>
    /\ ast = <<>>
    /\ todo = <<>>
    /\ rows = <<>>
    /\ result = ""
    /\ uses = {}
    /\ panic = ""
    /\ instructions = <<>>
    /\ memory_map = <<>>
    /\ NEXT_LABEL = 1
    /\ NEXT_ADDRESS = 0
    /\ mips_instrs = <<>>
    /\ stack_id_offset_map = <<>>
    /\ current_var_offset = 0
    /\ stack_types = <<>>

\* frontend::parser::parse, then the first line of generate_symbol_table
Parse ==
    /\ pc = "parse"
    /\ LET p == parse(source)
       IN  /\ ast' = p.ast
           /\ entries' = p.entries
           /\ todo' = generate_symbol_table_calls(p.ast)
    /\ pc' = "symtab"
    /\ UNCHANGED <<source, rows, result, uses, panic, instructions, memory_map,
                   NEXT_LABEL, NEXT_ADDRESS, mips_vars>>

\* the next call of generate_sub_symbol_table
GenerateSubSymbolTable ==
    /\ pc = "symtab"
    /\ todo # <<>>
    /\ LET r == generate_sub_symbol_table(Head(todo).subtree, rows, Head(todo).parent)
       IN  /\ rows' = r.rows
           /\ panic' = r.panic
           /\ todo' = IF r.panic # "" THEN <<>> ELSE r.calls \o Tail(todo)
           /\ pc' = IF r.panic # "" THEN "panic"
                    ELSE IF r.calls \o Tail(todo) = <<>> THEN "validate" ELSE "symtab"
    /\ UNCHANGED <<source, entries, ast, result, uses, instructions, memory_map,
                   NEXT_LABEL, NEXT_ADDRESS, mips_vars>>

\* semantic_validation(ast.clone(), &symbol_table).unwrap()
SemanticValidation ==
    /\ pc = "validate"
    /\ LET v == semantic_validation(ast, rows)
       IN  /\ result' = v.res
           /\ uses' = v.uses
           /\ pc' = IF IsOk(v) THEN "emit" ELSE "panic"
           /\ panic' = IF IsOk(v) THEN ""
                       ELSE IF IsErr(v) THEN "panic: unwrap on " \o v.res ELSE v.res
    /\ UNCHANGED <<source, entries, ast, todo, rows, instructions, memory_map,
                   NEXT_LABEL, NEXT_ADDRESS, mips_vars>>

\* generate_program_intermediate(ast, &symbol_table)
GenerateProgramIntermediate ==
    /\ pc = "emit"
    /\ LET e == generate_program_intermediate(
                    ast, [instructions |-> <<>>, memory_map |-> <<>>,
                          label_context |-> LabelContext_new, NEXT_LABEL |-> NEXT_LABEL,
                          NEXT_ADDRESS |-> NEXT_ADDRESS, panic |-> ""])
       IN  /\ instructions' = e.instructions
           /\ memory_map' = e.memory_map
           /\ NEXT_LABEL' = e.NEXT_LABEL
           /\ NEXT_ADDRESS' = e.NEXT_ADDRESS
           /\ panic' = e.panic
           /\ pc' = IF e.panic # "" THEN "panic" ELSE "done"
    /\ UNCHANGED <<source, entries, ast, todo, rows, result, uses, mips_vars>>

\* cmd_args[3], and what add_library finds in the library file (None: it does not open)
TargetFlags == {"-mips", "-x64"}
MathLibraries == {None, Some(<<Line("__divint64:")>>)}

\* match &*cmd_args[3] { "-mips" => backend::mips::generate_mips(..).unwrap(), .. }
GenerateMips ==
    /\ pc = "done"
    /\ \E flag \in TargetFlags, library \in MathLibraries :
          IF flag # "-mips"
          THEN /\ library = None
               /\ panic' = "The x86-64 architecture compilation is not yet supported"
               /\ pc' = "panic"
               /\ UNCHANGED mips_vars
          ELSE LET m == generate_mips(instructions, rows, library)
               IN  /\ mips_instrs' = m.mips_instrs
                   /\ stack_id_offset_map' = m.stack_id_offset_map
                   /\ current_var_offset' = m.current_var_offset
                   /\ stack_types' = m.stack_types
                   /\ panic' = m.panic
                   /\ pc' = IF m.panic # "" THEN "panic" ELSE "lowered"
    /\ UNCHANGED <<source, entries, ast, todo, rows, result, uses, instructions, memory_map,
                   NEXT_LABEL, NEXT_ADDRESS>>

Next ==
    \/ Parse
    \/ GenerateSubSymbolTable
    \/ SemanticValidation
    \/ GenerateProgramIntermediate
    \/ GenerateMips

Spec == Init /\ [][Next]_vars

(***************************************************************************)
(* The properties.                                                         *)
(***************************************************************************)
\* validation has run: result holds what semantic_validation returned, or its panic
Validated == result # ""

SamePair(a, b) ==
    /\ get_identifier(a) = get_identifier(b)
    /\ get_parent_identifier(a) = get_parent_identifier(b)

NoDuplicateRows ==
    \A i, j \in 1..Len(rows) : i # j => ~SamePair(rows[i], rows[j])

\* C1: after any sequence of adds made by generate_symbol_table no two rows of
\* the table share the pair (identifier, parent_identifier), and a call whose
\* add finds the pair already in the table panics and leaves the table as it
\* was: the row is not appended.
C1_Uniqueness ==
    /\ []NoDuplicateRows
    /\ [][panic' = "Duplicate identifier" => rows' = rows]_vars

\* a duplicate was refused: a row x of main is in the table and the add of a
\* second one panicked
C1_Witness ==
    /\ panic = "Duplicate identifier"
    /\ Len(rows) >= 2
    /\ \E i \in 1..Len(rows) : rows[i].kind = "Variable" /\ rows[i].identifier = "x"

RowInScope(identifier, scope_history) ==
    \E i \in 1..Len(rows) :
        /\ get_identifier(rows[i]) = identifier
        /\ Contains(scope_history, get_parent_scope_id(rows[i]))

\* C2: every lookup of the validator's walk (get_identifier_in_scope,
\* get_identifier_type_in_scope, get_mutability_in_scope) succeeds if and only
\* if the table has a row of that name whose parent_scope_id is in the scope
\* history of the lookup, and a lookup that does not succeed yields
\* SymbolNotFoundError.
C2_ScopeSoundness ==
    \A u \in uses :
        /\ u.res = "Ok" <=> RowInScope(u.identifier, u.scope_history)
        /\ u.res # "Ok" => u.res = "SymbolNotFoundError"

\* The declaration an assignment targets is the nearest one before it in the
\* enclosing blocks.  env maps the identifiers in scope to their mutability.
RECURSIVE AssignsImmutable(_, _)
AssignsImmutable(statements, env) ==
    IF statements = <<>> THEN FALSE
    ELSE LET s == Head(statements)
             inner == IF s.kind = "ForLoop"
                      THEN (s.control_identifier :> "Mutable") @@ env ELSE env
         IN  CASE s.kind = "VarDeclStatement" ->
                    AssignsImmutable(Tail(statements), (s.identifier :> s.mutability) @@ env)
               [] s.kind = "VarAssignStatement" ->
                    \/ s.identifier \in DOMAIN env /\ env[s.identifier] = "Constant"
                    \/ AssignsImmutable(Tail(statements), env)
               [] s.kind = "IfElifElseStatement" ->
                    \/ \E i \in 1..Len(s.statements) :
                           AssignsImmutable(s.statements[i].statements, env)
                    \/ AssignsImmutable(Tail(statements), env)
               [] s.kind \in {"IndefLoop", "WhileLoop", "ForLoop"} ->
                    \/ AssignsImmutable(s.statements, inner)
                    \/ AssignsImmutable(Tail(statements), env)
               [] OTHER -> AssignsImmutable(Tail(statements), env)

\* the parameters of a function, all constant
ParamEnv(f) ==
    [id \in {f.parameters[i].identifier : i \in 1..Len(f.parameters)} |-> "Constant"]

ReassignsImmutable ==
    \E k \in 1..Len(source) : AssignsImmutable(source[k].statements, ParamEnv(source[k]))

\* C3: on every program on which semantic_validation returns success, no
\* assignment anywhere in the program targets a variable declared constant or
\* a parameter.
C3_NoImmutableReassignment == result = "Ok" => ~ReassignsImmutable

\* The functions of the program with a return type other than void.
NonVoid == { k \in 1..Len(ast) : ast[k].return_type # "Void" }

\* the scope history of statement i of a function: one push per statement so far
RECURSIVE HistoryAt(_, _)
HistoryAt(f, i) == IF i = 0 THEN <<0>> ELSE Append(HistoryAt(f, i - 1), f.scope)

ValidReturn(statement, f, scope_history) ==
    /\ statement.kind = "ReturnStatement"
    /\ IsOk(validate_expression_of_type(statement.expression, f.return_type, rows,
                                        scope_history))

\* a return that validates at the return type, among the statements or in a block
RECURSIVE HasValidReturn(_, _, _)
HasValidReturn(statements, f, scope_history) ==
    \E i \in 1..Len(statements) :
        \/ ValidReturn(statements[i], f, scope_history)
        \/ /\ statements[i].kind \in {"IfElifElseStatement", "IfStatement", "ElseStatement",
                                      "IndefLoop", "WhileLoop", "ForLoop"}
           /\ HasValidReturn(statements[i].statements, f,
                             IF statements[i].kind = "IfElifElseStatement" THEN scope_history
                             ELSE Append(scope_history, statements[i].scope))

HasTopLevelValidReturn(f) ==
    \E i \in 1..Len(f.statements) : ValidReturn(f.statements[i], f, HistoryAt(f, i))

NoTopLevelReturn(f) ==
    \A i \in 1..Len(f.statements) : f.statements[i].kind # "ReturnStatement"

\* the statements of f validate: f, made void, validates
StatementsValidate(f) ==
    IsOk(semantic_validation_subtree([f EXCEPT !.return_type = "Void"], rows, <<0>>))

\* C4, as claimed: a function with a return type other than void on which
\* validation succeeds contains a return statement whose expression validates
\* at the return type, and validation of one that contains no such return
\* fails with BadFunctionReturn.
C4_ReturnCoverage ==
    Validated =>
        \A k \in NonVoid :
            /\ result = "Ok" => HasValidReturn(ast[k].statements, ast[k], <<0, ast[k].scope>>)
            /\ ~HasValidReturn(ast[k].statements, ast[k], <<0, ast[k].scope>>)
                   => result = "BadFunctionReturn"

\* C4, amended: a function with a return type other than void on which
\* validation succeeds has, among the statements of its body itself, a return
\* whose expression validates at the return type; and when the functions
\* before it validate and its own statements validate, but none of the
\* statements of its body itself is a return, validation fails with
\* BadFunctionReturn.
C4_TopLevelReturnCoverage ==
    Validated =>
        \A k \in NonVoid :
            /\ result = "Ok" => HasTopLevelValidReturn(ast[k])
            /\ ( /\ NoTopLevelReturn(ast[k])
                 /\ StatementsValidate(ast[k])
                 /\ \A j \in 1..(k - 1) : IsOk(semantic_validation_subtree(ast[j], rows, <<0>>)) )
                   => result = "BadFunctionReturn"

\* an int main whose only return is inside an if was refused
C4_Witness ==
    /\ result = "BadFunctionReturn"
    /\ \E k \in NonVoid :
           /\ NoTopLevelReturn(ast[k])
           /\ HasValidReturn(ast[k].statements, ast[k], <<0, ast[k].scope>>)

BlockKinds == {"IfElifElseStatement", "IfStatement", "ElseStatement",
               "IndefLoop", "WhileLoop", "ForLoop"}

\* the nodes of some kinds among statements and in their blocks, at any depth
RECURSIVE NodesOf(_, _)
NodesOf(statements, kinds) ==
    UNION { (IF statements[i].kind \in kinds THEN {statements[i]} ELSE {})
            \cup (IF statements[i].kind \in BlockKinds
                  THEN NodesOf(statements[i].statements, kinds) ELSE {})
            : i \in 1..Len(statements) }

AllNodes(root, kinds) == UNION { NodesOf(root[k].statements, kinds) : k \in 1..Len(root) }

\* the calls that are the terms of an expression
CallTerms(expression) ==
    { t.child : t \in { x \in {expression.lhs} \cup (IF IsSome(expression.rhs)
                                                      THEN {Unwrap(expression.rhs)} ELSE {}) :
                        x.kind = "Term" /\ x.child.kind = "FunctionCall" } }

\* every call of the program: the call statements, and the calls in the
\* expressions of returns, declarations and assignments
CallsOf(root) ==
    AllNodes(root, {"FunctionCall"})
    \cup UNION { CallTerms(s.expression) : s \in AllNodes(root, {"ReturnStatement"}) }
    \cup UNION { CallTerms(s.value) :
                 s \in AllNodes(root, {"VarDeclStatement", "VarAssignStatement"}) }

\* the parameter types of the function a call names
Callee(call) == { f \in {source[k] : k \in 1..Len(source)} : f.identifier = call.identifier }

BadArity(call) ==
    \E f \in Callee(call) : Len(call.arguments) # Len(f.parameters)

BadArgument(call) ==
    \E f \in Callee(call) :
        \E i \in 1..Len(call.arguments) :
            /\ i <= Len(f.parameters)
            /\ call.arguments[i].kind = "Value"
            /\ call.arguments[i].literal_type # f.parameters[i].param_type

\* C5: whenever a call of the program, a statement or a term of an expression,
\* has a number of arguments other than the callee's number of parameters, or
\* an argument of a type other than the parameter's, validation fails, with
\* IncorrectNumArguments or IncorrectDatatype.
C5_CallsChecked ==
    (Validated /\ \E call \in CallsOf(source) : BadArity(call) \/ BadArgument(call))
        => result \in {"IncorrectNumArguments", "IncorrectDatatype"}

\* C6: a program with a for loop whose control type is neither int nor long
\* is refused before any code is generated: it never reaches the emitter.
C6_ControlIntegral ==
    (\E f \in AllNodes(source, {"ForLoop"}) : f.control_type \notin {"Integer", "Long"})
        => pc \notin {"emit", "done"} /\ instructions = <<>>

\* a break of the loop itself: among the statements or in the arms of their
\* cascades, not in a nested loop
RECURSIVE OwnBreak(_)
OwnBreak(statements) ==
    \E i \in 1..Len(statements) :
        \/ statements[i].kind = "Break"
        \/ /\ statements[i].kind \in {"IfElifElseStatement", "IfStatement", "ElseStatement"}
           /\ OwnBreak(statements[i].statements)

LoopsWithoutBreak == { l \in AllNodes(source, {"IndefLoop"}) : ~OwnBreak(l.statements) }

\* C7: validation succeeds only if every indefinite loop has a break of its
\* own, directly in its body or in the arms of if/elif/else cascades there and
\* not in a nested loop; with an indefinite loop that has none, validation is
\* the fatal error (the panic) about the missing break.
C7_IndefLoopHasBreak ==
    /\ result = "Ok" => LoopsWithoutBreak = {}
    /\ (Validated /\ LoopsWithoutBreak # {})
           => result = "panic: Indefinite loop must contain a break statement!"

\* accepted: a loop whose break is in the arm of a cascade; refused elsewhere:
\* a loop whose only break is the break of a nested loop
C7_Witness ==
    /\ result = "Ok"
    /\ \E l \in AllNodes(source, {"IndefLoop"}) :
           /\ \A i \in 1..Len(l.statements) : l.statements[i].kind # "Break"
           /\ OwnBreak(l.statements)

\* C8: the row of a for loop's control variable is mutable and its
\* parent_scope_id is the scope of the ForLoop node.
C8_ControlVariableScope ==
    \A i \in 1..Len(rows) :
        \A f \in AllNodes(ast, {"ForLoop"}) :
            ( /\ rows[i].kind = "Variable"
              /\ rows[i].parent.kind = "ScopeBlock"
              /\ rows[i].parent.scope = f.scope
              /\ rows[i].identifier = f.control_identifier )
            => rows[i].mutability = "Mutable" /\ rows[i].parent_scope = f.scope

\* the scopes of the nodes that introduce one
ScopesOf(root) ==
    { root[k].scope : k \in 1..Len(root) }
    \cup { n.scope : n \in AllNodes(root, BlockKinds \ {"IfElifElseStatement"}) }

\* C9: once the table is built, every scope of a node that introduces one
\* (function, if or elif arm, else arm, indefinite, while and for loop) is the
\* scope_id of exactly one function or block row.
C9_ScopeRows ==
    (pc = "validate" \/ Validated) =>
        \A sc \in ScopesOf(ast) :
            Cardinality({ i \in 1..Len(rows) :
                            rows[i].kind \in {"Function", "ScopeBlock"}
                            /\ rows[i].scope = sc }) = 1

Labels == { i \in 1..Len(instructions) : instructions[i].op = "Label" }

\* C10: the names the counter has produced so far are all distinct, and no two
\* Label instructions of the emitted code carry the same name; every name
\* produced labels one instruction.
C10_LabelUniqueness ==
    /\ \A a, b \in 1..(NEXT_LABEL - 1) :
           a # b => get_next_label(a).label # get_next_label(b).label
    /\ \A i, j \in Labels : i # j => instructions[i].arg # instructions[j].arg
    /\ pc = "done" => Cardinality(Labels) = NEXT_LABEL - 1

\* a compilation that took eighteen labels, up to "_12"
C10_Witness ==
    /\ pc = "done"
    /\ NEXT_LABEL > 17
    /\ \E i \in Labels : instructions[i].arg = "_10"
    /\ \E i \in Labels : instructions[i].arg = "_a"

(***************************************************************************)
(* The jumps the control structure of the program calls for: every jump    *)
(* the emitter is to push, in the order of the pushes, with the statement  *)
(* it comes from and the label it is to reach when each cascade and each   *)
(* loop keeps its own labels.  c is the label counter and the labels of    *)
(* the cascade and the loop around the statement.                          *)
(***************************************************************************)
LabelOf(n) == "_" \o LowerHex(n)

ExpectedJump(origin, target, c) ==
    [origin |-> origin, target |-> target, loop |-> c.loop, in_if |-> c.in_if]

RECURSIVE ExpectedOf(_, _), ExpectedOfEach(_, _)
ExpectedOfEach(statements, c) ==
    IF statements = <<>> THEN c
    ELSE ExpectedOfEach(Tail(statements), ExpectedOf(Head(statements), c))

\* the context after a block, with the labels of the structure around it back in place
Leave(inner, c) == [c EXCEPT !.n = inner.n, !.jumps = inner.jumps]

ExpectedOf(s, c) ==
    CASE s.kind = "IfElifElseStatement" ->
           Leave(ExpectedOfEach(s.statements, [c EXCEPT !.n = @ + 1, !.ieie = LabelOf(c.n)]), c)
      [] s.kind = "IfStatement" ->
           LET body == ExpectedOfEach(s.statements, [c EXCEPT !.n = @ + 1, !.in_if = TRUE])
           IN  [Leave(body, c) EXCEPT !.jumps = Append(@, ExpectedJump("arm", c.ieie, c))]
      [] s.kind = "ElseStatement" ->
           Leave(ExpectedOfEach(s.statements, [c EXCEPT !.in_if = TRUE]), c)
      [] s.kind \in {"IndefLoop", "WhileLoop", "ForLoop"} ->
           LET body == ExpectedOfEach(s.statements,
                                      [c EXCEPT !.n = @ + 2, !.continue = LabelOf(c.n),
                                                !.break = LabelOf(c.n + 1),
                                                !.loop = s.kind, !.in_if = FALSE])
           IN  [Leave(body, c) EXCEPT !.jumps = Append(@, ExpectedJump("back", LabelOf(c.n), c))]
      [] s.kind = "Break" -> [c EXCEPT !.jumps = Append(@, ExpectedJump("break", c.break, c))]
      [] s.kind = "Continue" ->
           [c EXCEPT !.jumps = Append(@, ExpectedJump("continue", c.continue, c))]
      [] OTHER -> c

RECURSIVE ExpectedOfProgram(_, _, _)
ExpectedOfProgram(root, n, jumps) ==
    IF root = <<>> THEN jumps
    ELSE LET f == ExpectedOfEach(Head(root).statements,
                                 [n |-> n, jumps |-> jumps, ieie |-> "", break |-> "",
                                  continue |-> "", loop |-> "", in_if |-> FALSE])
         IN  ExpectedOfProgram(Tail(root), f.n, f.jumps)

ExpectedJumps == ExpectedOfProgram(ast, 1, <<>>)
IsJump(instr) == instr.op = "Jump"
EmittedJumps == SelectSeq(instructions, IsJump)

\* C11: every break is emitted as a Jump to the exit label, and every continue as a Jump
\* to the re-entry label, of the innermost loop that encloses it, also when the break or
\* continue follows a nested loop inside the body of the outer loop.
C11_InnermostLoopLabels ==
    pc = "done" =>
        /\ Len(EmittedJumps) = Len(ExpectedJumps)
        /\ \A k \in 1..Len(ExpectedJumps) :
               ExpectedJumps[k].origin \in {"break", "continue"}
                   => EmittedJumps[k].arg = ExpectedJumps[k].target

(***************************************************************************)
(* The lowering: offsets of locals.                                        *)
(***************************************************************************)
\* the lines that name an offset from $fp, in the order of their emission
FpTexts ==
    {"sw $t0, -{}($fp)", "sw $t1, -{}($fp)", "lw $t0, -{}($fp) # load int",
     "lw $t0, -{}($fp) # load long", "lw $t1, -{}($fp)"}
NamesFpOffset(line) == line.text \in FpTexts
FpLines == SelectSeq(mips_instrs, NamesFpOffset)

IsAccess(instr) == instr.op \in {"Store", "Load"}
Accesses == SelectSeq(instructions, IsAccess)
\* the offsets the accesses name when each uses the offset its address has in the map
RECURSIVE OffsetsOf(_)
OffsetsOf(code) ==
    IF code = <<>> THEN <<>>
    ELSE (IF Head(code).type = "Long"
          THEN <<stack_id_offset_map[Head(code).address],
                 stack_id_offset_map[Head(code).address] - 4>>
          ELSE <<stack_id_offset_map[Head(code).address]>>) \o OffsetsOf(Tail(code))

Stores(a) == { i \in 1..Len(instructions) :
                 instructions[i].op = "Store" /\ instructions[i].address = a }
FirstStore(a) == CHOOSE i \in Stores(a) : \A j \in Stores(a) : i <= j
StoredAddresses == { a \in 0..NEXT_ADDRESS : Stores(a) # {} }

\* C12: in the lowered MIPS two distinct local addresses never receive the same offset, a
\* local first stored later receives a strictly larger offset, and every Store and Load of
\* a local address names the offset allocated at its first Store.
C12_OffsetsInjectiveOrdered ==
    pc = "lowered" =>
        /\ DOMAIN stack_id_offset_map = StoredAddresses
        /\ \A a, b \in StoredAddresses :
              /\ a # b => stack_id_offset_map[a] # stack_id_offset_map[b]
              /\ FirstStore(a) < FirstStore(b) => stack_id_offset_map[a] < stack_id_offset_map[b]
        /\ Len(FpLines) = Len(OffsetsOf(Accesses))
        /\ \A k \in 1..Len(FpLines) : FpLines[k].arg = OffsetsOf(Accesses)[k]

\* a lowered program with a long and another local, one of them stored twice and loaded
C12_Witness ==
    /\ pc = "lowered"
    /\ \E a, b \in StoredAddresses : a # b /\ Cardinality(Stores(a)) > 1
    /\ \E i \in 1..Len(instructions) : instructions[i].op = "Load"
    /\ \E i \in 1..Len(instructions) :
          instructions[i].op = "Store" /\ instructions[i].type = "Long"

(***************************************************************************)
(* The lowering: frames.                                                   *)
(***************************************************************************)
\* byte/char/bool/int/float/string count 4 bytes, long/double 8
WidthOf(t) == IF t = "Long" THEN 8 ELSE 4

\* the sum of the widths of the variable rows of a function
RECURSIVE LocalsWidthFrom(_, _)
LocalsWidthFrom(table, function) ==
    IF table = <<>> THEN 0
    ELSE (IF Head(table).kind = "Variable" /\ function_id(Head(table)) = function
          THEN WidthOf(Head(table).primitive_type) ELSE 0)
         + LocalsWidthFrom(Tail(table), function)
LocalsWidth(function) == LocalsWidthFrom(rows, function)

\* the frame sizes on the lines that decrement $sp after the label of the function
FrameSizes(function) ==
    { mips_instrs[k + 2].arg : k \in { j \in 1..(Len(mips_instrs) - 2) :
          /\ mips_instrs[j].text = "{}: # start func"
          /\ mips_instrs[j].arg = function } }
FunctionNames == { ast[k].identifier : k \in 1..Len(ast) }

\* C13: for every function the frame size by which $sp is decremented at FuncStart equals
\* the sum of the byte widths of the function's locals in the symbol table, with
\* byte/char/bool/int/float/string counted as 4 and long/double as 8.
C13_FrameSize ==
    /\ panic # "not yet implemented, src/backend/mips.rs:36"
    /\ pc = "lowered" => \A f \in FunctionNames : FrameSizes(f) = {LocalsWidth(f)}

\* the lines that the lowering of instruction i of the intermediate code adds
LoweredUpTo(i) ==
    lower_each([mips_instrs |-> <<>>, stack_id_offset_map |-> <<>>, current_var_offset |-> 0,
                stack_types |-> <<>>, panic |-> ""],
               SubSeq(instructions, 1, i), rows).mips_instrs
LinesOf(i) == SubSeq(LoweredUpTo(i), Len(LoweredUpTo(i - 1)) + 1, Len(LoweredUpTo(i)))

IsJumpToEnd(line) == line.text = "j {}" /\ line.arg = "end"
IsReturnJump(line) == line.text = "jr $ra"
FuncEnds == { i \in 1..Len(instructions) : instructions[i].op = "FuncEnd" }

\* C14: for every function other than main FuncEnd emits code that ends with `jr $ra`, and
\* for main FuncEnd emits a jump to the epilogue, so that control never falls through from
\* the end of the code of one function into the code that follows it.
C14_FunctionEnds ==
    pc = "lowered" =>
        \A i \in FuncEnds :
            /\ LinesOf(i) # <<>>
            /\ IF instructions[i].arg = "main"
               THEN IsJumpToEnd(LinesOf(i)[Len(LinesOf(i))])
               ELSE IsReturnJump(LinesOf(i)[Len(LinesOf(i))])

\* C15: when the intermediate code lowers successfully, the first line of the emitted text
\* is the jump to main and the last lines are the halt syscall (li $v0, 10; syscall),
\* whatever lies between.
C15_JumpFirstHaltLast ==
    pc = "lowered" =>
        /\ Len(mips_instrs) >= 3
        /\ mips_instrs[1] = Line("j main # start program execution")
        /\ mips_instrs[Len(mips_instrs) - 1] = Line("li $v0, 10 # halt syscall")
        /\ mips_instrs[Len(mips_instrs)] = Line("syscall")

\* a lowered program with the library and the code of a store and of a label in between
C15_Witness ==
    /\ pc = "lowered"
    /\ \E k \in 2..(Len(mips_instrs) - 2) : mips_instrs[k] = Line("__divint64:")
    /\ \E k \in 2..(Len(mips_instrs) - 2) : mips_instrs[k].text = "sw $t0, -{}($fp)"
    /\ \E k \in 2..(Len(mips_instrs) - 2) : mips_instrs[k].text = "{}:"

(***************************************************************************)
(* The emitter: cascades and for loops.                                    *)
(***************************************************************************)
JumpsUpTo(i) == { j \in 1..i : instructions[j].op = "Jump" }
\* the place in the instructions of the k-th jump
JumpIndex(k) ==
    CHOOSE i \in 1..Len(instructions) :
        instructions[i].op = "Jump" /\ Cardinality(JumpsUpTo(i)) = k
LabelledAfter(i, label) ==
    \E j \in (i + 1)..Len(instructions) :
        instructions[j].op = "Label" /\ instructions[j].arg = label

\* C16: every if/elif arm ends with a Jump to the exit label of the cascade the arm belongs
\* to, and that label is emitted after the last arm of the cascade, also when the body of
\* the arm holds a nested cascade.
C16_ArmJumpsToOwnExit ==
    pc = "done" =>
        /\ Len(EmittedJumps) = Len(ExpectedJumps)
        /\ \A k \in 1..Len(ExpectedJumps) :
               ExpectedJumps[k].origin = "arm"
                   => /\ EmittedJumps[k].arg = ExpectedJumps[k].target
                      /\ LabelledAfter(JumpIndex(k), EmittedJumps[k].arg)

LabelIndex(label) ==
    CHOOSE i \in 1..Len(instructions) :
        instructions[i].op = "Label" /\ instructions[i].arg = label
IsAccessOf(instr, op, x) ==
    instr.op = op /\ instr.type = x.type /\ instr.address = x.address

\* the instructions around the JumpNotZero at j are those of a for loop over the local
\* stored before the start label
ForLoopOrder(j) ==
    LET end == LabelIndex(instructions[j].arg)
        start == LabelIndex(instructions[end - 1].arg)
        x == instructions[start - 1]
    IN  /\ instructions[end - 1].op = "Jump"
        /\ start < j /\ j < end
        /\ x.op = "Store"
        /\ IsAccessOf(instructions[start + 1], "Load", x)
        /\ instructions[j - 1].op = "GreaterThan"
        /\ IsAccessOf(instructions[end - 4], "Load", x)
        /\ instructions[end - 3].op = "Add"
        /\ IsAccessOf(instructions[end - 2], "Store", x)

\* C17: for every for loop the emitter produces the order: initial, Store x, Label start,
\* Load x, limit, GreaterThan, JumpNotZero end, body, step, Load x, Add, Store x,
\* Jump start, Label end, with every Load and Store of x at the control variable's address.
C17_ForLoopOrder ==
    pc = "done" =>
        \A j \in 1..Len(instructions) : instructions[j].op = "JumpNotZero" => ForLoopOrder(j)

\* C18: a continue inside an if inside the body of a for loop is emitted as a Jump to the
\* start label of that for loop, the label before the limit test, so the jump goes
\* backwards past the step code without running it.
C18_ContinueInIfInFor ==
    pc = "done" =>
        \A k \in 1..Len(ExpectedJumps) :
            LET jump == ExpectedJumps[k]
            IN  (jump.origin = "continue" /\ jump.loop = "ForLoop" /\ jump.in_if)
                    => /\ k <= Len(EmittedJumps)
                       /\ EmittedJumps[k].arg = jump.target
                       /\ LabelIndex(jump.target) < JumpIndex(k)
                       /\ instructions[LabelIndex(jump.target) - 1].op = "Store"

(***************************************************************************)
(* The nodes that take an address, in the order in which the emitter       *)
(* reaches them: the parameters of a function before its statements, a     *)
(* for loop before its body.                                               *)
(***************************************************************************)
Allocation(kind, func_name, identifier, k) ==
    [kind |-> kind, func |-> k, key |-> get_var_repr(func_name, identifier)]

RECURSIVE AllocatedIn(_, _, _)
AllocatedIn(statements, func_name, k) ==
    IF statements = <<>> THEN <<>>
    ELSE LET s == Head(statements)
         IN  (CASE s.kind \in {"VarDeclStatement", "Parameter"} ->
                     <<Allocation(s.kind, func_name, s.identifier, k)>>
                [] s.kind = "ForLoop" ->
                     <<Allocation(s.kind, func_name, s.control_identifier, k)>>
                         \o AllocatedIn(s.statements, func_name, k)
                [] s.kind \in BlockKinds \ {"ForLoop"} -> AllocatedIn(s.statements, func_name, k)
                [] OTHER -> <<>>)
             \o AllocatedIn(Tail(statements), func_name, k)

RECURSIVE AllocatedFrom(_)
AllocatedFrom(k) ==
    IF k > Len(ast) THEN <<>>
    ELSE AllocatedIn(ast[k].parameters \o ast[k].statements, ast[k].identifier, k)
             \o AllocatedFrom(k + 1)

Allocated == AllocatedFrom(1)

\* the k-th node that takes an address is given address k - 1
AddressOf(k) == k - 1

\* C19: every variable declaration, parameter and for-loop control variable is given the
\* next value of one counter that starts at 0 and is never reset between functions: the
\* addresses are distinct, each is greater than all addresses given earlier in the
\* compilation, and the counter ends at the number of addresses given.
C19_FreshAddresses ==
    pc = "done" =>
        /\ NEXT_ADDRESS = Len(Allocated)
        /\ \A i \in 1..Len(instructions) :
               IsAccess(instructions[i]) => instructions[i].address < NEXT_ADDRESS
        /\ \A k \in 1..Len(Allocated) :
               /\ Allocated[k].kind # "Parameter" => Stores(AddressOf(k)) # {}
               /\ (\A l \in (k + 1)..Len(Allocated) : Allocated[l].key # Allocated[k].key)
                      => /\ Allocated[k].key \in DOMAIN memory_map
                         /\ memory_map[Allocated[k].key].address = AddressOf(k)
        /\ \A k, l \in 1..Len(Allocated) :
               (k < l /\ Allocated[k].kind # "Parameter" /\ Allocated[l].kind # "Parameter")
                   => FirstStore(AddressOf(k)) < FirstStore(AddressOf(l))

\* two functions have been emitted, the first with a for loop and the second with a
\* declaration that is given an address above those of the first
C19_Witness ==
    /\ pc = "done"
    /\ Len(ast) = 2
    /\ \E k, l \in 1..Len(Allocated) :
           /\ k < l
           /\ Allocated[k].kind = "ForLoop" /\ Allocated[k].func = 1
           /\ Allocated[l].kind = "VarDeclStatement" /\ Allocated[l].func = 2
           /\ Stores(AddressOf(l)) # {}

(***************************************************************************)
(* The lowering: the offsets of the locals of each function.               *)
(***************************************************************************)
\* the FuncStart of the function that instruction i belongs to
FuncStartBefore(i) ==
    CHOOSE s \in 1..i : /\ instructions[s].op = "FuncStart"
                        /\ \A j \in (s + 1)..i : instructions[j].op # "FuncStart"
IsFirstStore(i) ==
    instructions[i].op = "Store" /\ FirstStore(instructions[i].address) = i

\* the widths of the locals first stored by the instructions after s, up to instruction i
RECURSIVE WidthsFirstStored(_, _)
WidthsFirstStored(s, i) ==
    IF i <= s THEN 0
    ELSE (IF IsFirstStore(i) THEN WidthOf(instructions[i].type) ELSE 0)
         + WidthsFirstStored(s, i - 1)

\* C20: the offsets of locals start again at every FuncStart: in every function of a
\* program the offset of a local is the sum of the widths of the locals of that function
\* stored so far, a distance from the frame pointer of that function, and it does not
\* exceed the frame size by which $sp is decremented at the FuncStart of that function.
C20_OffsetsPerFunction ==
    pc = "lowered" =>
        \A i \in 1..Len(instructions) :
            IsFirstStore(i) =>
                LET s == FuncStartBefore(i)
                    offset == stack_id_offset_map[instructions[i].address]
                IN  /\ offset = WidthsFirstStored(s, i)
                    /\ \A frame_size \in FrameSizes(instructions[s].arg) : offset <= frame_size

(***************************************************************************)
(* The lowering: the types of the operand stack.                           *)
(***************************************************************************)
\* the state of generate_mips after the first i instructions of the intermediate code
LoweredState(i) ==
    lower_each([mips_instrs |-> <<>>, stack_id_offset_map |-> <<>>, current_var_offset |-> 0,
                stack_types |-> <<>>, panic |-> ""],
               SubSeq(instructions, 1, i), rows)
Relational == {"Equal", "NotEqual", "GreaterThan", "LessThan", "GreaterEqual", "LessEqual"}
AllButLast(s, n) == SubSeq(s, 1, Len(s) - n)

\* C21: lowering a relational instruction takes the two operand entries off stack_types
\* and puts one byte entry on it, so the top of stack_types after a comparison is byte
\* whatever the type of the operands.
C21_RelationalPushesByte ==
    pc = "lowered" =>
        \A i \in 1..Len(instructions) :
            instructions[i].op \in Relational =>
                LET before == LoweredState(i - 1).stack_types
                    after == LoweredState(i).stack_types
                IN  /\ Len(before) >= 2
                    /\ after = Append(AllButLast(before, 2), "Byte")

(***************************************************************************)
(* The lowering: what the lines of a conditional jump do.  The value on    *)
(* top of the operand stack is the word at 0($sp), with the word at        *)
(* -4($sp) as well for a long, once $sp is back above it; the registers    *)
(* are $t0 and $t1.                                                        *)
(***************************************************************************)
Words == {-1, 0, 1}
Bit(b) == IF b THEN 1 ELSE 0

\* the registers after a line
Step(line, regs, word0, word1) ==
    CASE line.text = "lw $t0, 0($sp)" -> [regs EXCEPT !.t0 = word0]
      [] line.text = "lw $t1, -4($sp)" -> [regs EXCEPT !.t1 = word1]
      [] line.text = "seq $t0, $t0, $zero" -> [regs EXCEPT !.t0 = Bit(regs.t0 = 0)]
      [] line.text = "seq $t1, $t1, $zero" -> [regs EXCEPT !.t1 = Bit(regs.t1 = 0)]
      [] line.text = "and $t0, $t0, $t1" ->
           [regs EXCEPT !.t0 = Bit(regs.t0 = 1 /\ regs.t1 = 1)]
      [] line.text = "move $t1, $zero" -> [regs EXCEPT !.t1 = 0]
      [] OTHER -> regs

\* whether the branch at the end of the lines is taken: bnez branches when $t0 is not 0
RECURSIVE Branches(_, _, _, _)
Branches(lines, regs, word0, word1) ==
    IF lines = <<>> THEN FALSE
    ELSE IF Head(lines).text = "bnez $t0, {}" THEN regs.t0 # 0
    ELSE Branches(Tail(lines), Step(Head(lines), regs, word0, word1), word0, word1)

IsZero(operand_type, word0, word1) ==
    word0 = 0 /\ (operand_type = "Long" => word1 = 0)

\* C22: lowering JumpZero(label) pops the top entry of stack_types and emits a branch to
\* label that is taken exactly when the value popped at run time is zero, so that the
\* body of an if or a while is skipped exactly when its condition is 0.
C22_JumpZeroBranchesOnZero ==
    pc = "lowered" =>
        \A i \in 1..Len(instructions) :
            instructions[i].op = "JumpZero" =>
                LET before == LoweredState(i - 1).stack_types
                IN  /\ Len(before) >= 1
                    /\ LoweredState(i).stack_types = AllButLast(before, 1)
                    /\ \E k \in 1..Len(LinesOf(i)) :
                           /\ LinesOf(i)[k].text = "bnez $t0, {}"
                           /\ LinesOf(i)[k].arg = instructions[i].arg
                    /\ \A word0, word1 \in Words :
                           Branches(LinesOf(i), [t0 |-> 0, t1 |-> 0], word0, word1)
                               <=> IsZero(before[Len(before)], word0, word1)

(***************************************************************************)
(* The validator: operators and the required type.                         *)
(***************************************************************************)
Numeric == {"Byte", "Integer", "Long"}
Integral == {"Byte", "Integer", "Long"}
Arithmetic == {"NegateNumerical", "Addition", "Subtraction", "Multiplication", "Division"}
Bitwise == {"Complement", "And", "Or", "XOr", "LeftShiftLogical", "LeftShiftArithmetic",
            "RightShiftLogical"}

\* a term that is a literal is of the required type
LiteralOfType(term, required_type) ==
    term.child.kind = "Value" => term.child.literal_type = required_type

\* the declarations whose value is an expression with an operator
OperatorDecls ==
    { d \in AllNodes(ast, {"VarDeclStatement"}) :
        d.value.kind = "Expression" /\ IsSome(d.value.operator) }

\* C23: in a program that validates, an expression with an operator is of a type that
\* admits the operator: numeric for an arithmetic operator, integral for a bitwise one,
\* never bool; and both operands of a binary expression are of the required type.
C23_OperatorAdmitted ==
    result = "Ok" =>
        \A d \in OperatorDecls :
            /\ Unwrap(d.value.operator) \in Arithmetic => d.var_type \in Numeric
            /\ Unwrap(d.value.operator) \in Bitwise => d.var_type \in Integral
            /\ d.var_type # "Boolean"
            /\ LiteralOfType(d.value.lhs, d.var_type)
            /\ IsSome(d.value.rhs) => LiteralOfType(Unwrap(d.value.rhs), d.var_type)

(***************************************************************************)
(* The parser: the scope ids handed out.                                   *)
(***************************************************************************)
ScopedKinds == {"IfStatement", "ElseStatement", "IndefLoop", "WhileLoop", "ForLoop"}

\* the number of blocks among statements and in their blocks, at any depth
RECURSIVE BlocksIn(_)
BlocksIn(statements) ==
    IF statements = <<>> THEN 0
    ELSE (IF Head(statements).kind \in ScopedKinds THEN 1 ELSE 0)
         + (IF Head(statements).kind \in BlockKinds THEN BlocksIn(Head(statements).statements)
            ELSE 0)
         + BlocksIn(Tail(statements))

RECURSIVE ScopedFrom(_)
ScopedFrom(k) ==
    IF k > Len(source) THEN 0 ELSE 1 + BlocksIn(source[k].statements) + ScopedFrom(k + 1)

\* the ids on the functions and the blocks of the tree
ScopeIdsOfTree ==
    { ast[k].scope : k \in 1..Len(ast) } \cup { n.scope : n \in AllNodes(ast, ScopedKinds) }

\* C24: the scope ids the parser hands out are pairwise distinct, each is greater than
\* every id handed out before it, and none is the global id 0: the first id is 1.  The
\* k-th allocation hands out k, and every function and block of the tree has its own id.
C24_ScopeIdsFresh ==
    pc # "parse" =>
        /\ \A k \in 1..Len(entries) : entries[k].scope = k
        /\ Len(entries) = ScopedFrom(1)
        /\ ScopeIdsOfTree = 1..Len(entries)

\* two functions have been parsed, with nested blocks
C24_Witness ==
    /\ pc # "parse"
    /\ Len(ast) = 2
    /\ Len(entries) >= 4
    /\ \E n \in AllNodes(ast, ScopedKinds) : AllNodes(<<n>>, ScopedKinds) # {}

(***************************************************************************)
(* The validator: the type of a condition.                                 *)
(***************************************************************************)
\* the type a boolean term evaluates to: bool with an operator, the type of its literal
\* without one
TypeOfBooleanTerm(term) ==
    IF IsSome(term.operator) \/ term.lhs.kind # "Term" \/ term.lhs.child.kind # "Value"
    THEN "Boolean"
    ELSE term.lhs.child.literal_type

TypeOfCondition(condition) ==
    IF IsSome(condition.connector) \/ condition.lhs.kind # "BooleanTerm" THEN "Boolean"
    ELSE TypeOfBooleanTerm(condition.lhs)

\* C25: in a program that validates, the condition of every if or elif arm and of every
\* while loop is of type bool; a condition that evaluates to another type, such as a bare
\* int term, makes the validation fail.
C25_ConditionsAreBool ==
    result = "Ok" =>
        \A n \in AllNodes(ast, {"IfStatement", "WhileLoop"}) :
            TypeOfCondition(n.condition) = "Boolean"

(***************************************************************************)
(* The validator: the scope history in the arms of a cascade.              *)
(***************************************************************************)
\* the pairs of scopes of two arms of one cascade
SiblingArms ==
    UNION { { <<c.statements[i].scope, c.statements[j].scope>> :
                i, j \in 1..Len(c.statements) }
            \ { <<n.scope, n.scope>> : n \in AllNodes(ast, ScopedKinds) }
            : c \in AllNodes(ast, {"IfElifElseStatement"}) }

\* C26: the scope history of a lookup made while an arm of a cascade is validated holds
\* the enclosing scopes and the scope of that arm, never the scope of another arm of the
\* same cascade, so that a variable declared in one arm is not found from a later arm.
C26_ArmsDoNotShareScopes ==
    \A u \in uses :
        \A pair \in SiblingArms :
            ~(Contains(u.scope_history, pair[1]) /\ Contains(u.scope_history, pair[2]))

(***************************************************************************)
(* Resolution of names: every use of a name belongs to the nearest         *)
(* declaration of that name before it in the enclosing blocks.  The walk   *)
(* goes through a function in the order of the emitter; c holds the        *)
(* declarations in scope (env: name to type and address), the number of    *)
(* addresses taken so far (n), the loads and stores that the uses call     *)
(* for (accesses), whether every assignment so far is of the type of its   *)
(* declaration (typed) and whether every use so far has a declaration in   *)
(* scope (closed).                                                         *)
(***************************************************************************)
Access(op, declaration) ==
    [op |-> op, type |-> declaration.type, address |-> declaration.address]

Declare(c, identifier, type) ==
    [c EXCEPT !.env = (identifier :> [type |-> type, address |-> c.n]) @@ @, !.n = @ + 1]

UseOf(c, op, identifier) ==
    IF identifier \in DOMAIN c.env
    THEN [c EXCEPT !.accesses = Append(@, Access(op, c.env[identifier]))]
    ELSE [c EXCEPT !.closed = FALSE]

TermUses(c, term) ==
    IF term.kind = "Term" /\ term.child.kind = "Identifier"
    THEN UseOf(c, "Load", term.child.identifier)
    ELSE c

ExprUses(c, e) ==
    IF e.kind # "Expression" THEN TermUses(c, e)
    ELSE IF IsSome(e.rhs) THEN TermUses(TermUses(c, e.lhs), Unwrap(e.rhs))
    ELSE TermUses(c, e.lhs)

\* the value assigned is of the type of the declaration
AssignedType(c, s) ==
    IF /\ s.identifier \in DOMAIN c.env
       /\ s.value.kind = "Expression" /\ s.value.lhs.child.kind = "Value"
       /\ s.value.lhs.child.literal_type # c.env[s.identifier].type
    THEN [c EXCEPT !.typed = FALSE]
    ELSE c

\* the declarations of a block end with it; the addresses and the uses stay
EndOfBlock(inner, c) == [inner EXCEPT !.env = c.env]

RECURSIVE Resolve(_, _), ResolveEach(_, _)
ResolveEach(statements, c) ==
    IF statements = <<>> THEN c
    ELSE ResolveEach(Tail(statements), Resolve(Head(statements), c))

Resolve(s, c) ==
    CASE s.kind = "VarDeclStatement" ->
           UseOf(Declare(ExprUses(c, s.value), s.identifier, s.var_type), "Store", s.identifier)
      [] s.kind = "Parameter" -> Declare(c, s.identifier, s.param_type)
      [] s.kind = "VarAssignStatement" ->
           UseOf(AssignedType(ExprUses(c, s.value), s), "Store", s.identifier)
      [] s.kind = "ReturnStatement" -> ExprUses(c, s.expression)
      [] s.kind = "ForLoop" ->
           LET control == UseOf(Declare(ExprUses(c, s.control_initial), s.control_identifier,
                                        s.control_type),
                                "Store", s.control_identifier)
               body == ResolveEach(s.statements, ExprUses(control, s.limit))
               step == ExprUses([body EXCEPT !.env = control.env], s.step)
           IN  EndOfBlock(UseOf(UseOf(step, "Load", s.control_identifier), "Store",
                                s.control_identifier), c)
      [] s.kind \in BlockKinds \ {"ForLoop"} -> EndOfBlock(ResolveEach(s.statements, c), c)
      [] OTHER -> c

\* a function after the functions before it: its names are its own, the addresses go on
RECURSIVE ResolveFrom(_, _)
ResolveFrom(k, c) ==
    IF k > Len(ast) THEN c
    ELSE ResolveFrom(k + 1, ResolveEach(ast[k].parameters \o ast[k].statements,
                                        [c EXCEPT !.env = <<>>]))

Resolved ==
    ResolveFrom(1, [env |-> <<>>, n |-> 0, accesses |-> <<>>, typed |-> TRUE, closed |-> TRUE])

\* C27: when a name is declared in an outer scope and again in a nested scope of the
\* function, a use in the nested scope belongs to the nested declaration and a use after
\* the nested scope to the outer one again: a program validates only if every assignment
\* is of the type of the nearest declaration, and every Load and Store emitted carries
\* the type and the address of the nearest declaration.
C27_InnermostDeclaration ==
    /\ result = "Ok" => Resolved.typed
    /\ (pc = "done" /\ Resolved.closed) => Accesses = Resolved.accesses

\* C28: in the intermediate code of a validated program every Load of a local is
\* preceded, within the same function, by a Store of the same type to the same address,
\* loads of parameters included, so that the lookup of the offset of a Load in the
\* lowering never misses.
C28_LoadAfterStore ==
    /\ pc = "done" =>
           \A i \in 1..Len(instructions) :
               instructions[i].op = "Load" =>
                   \E j \in (FuncStartBefore(i) + 1)..(i - 1) :
                       IsAccessOf(instructions[j], "Store", instructions[i])
    /\ panic # "unwrap on None, src/backend/mips.rs:144"

(***************************************************************************)
(* The operand stack of the intermediate code, instruction after           *)
(* instruction in the order of the code.                                   *)
(***************************************************************************)
BinaryInstrs ==
    {"Add", "Sub", "Mult", "Div", "BitwiseAnd", "BitwiseOr", "BitwiseXor", "LeftShiftLogical",
     "LeftShiftArithmetic", "RightShiftLogical", "RightShiftArithmetic", "LogicAnd", "LogicOr",
     "LogicXor"} \cup Relational
UnaryInstrs == {"NumNeg", "Complement", "LogicNeg"}

\* the operands an instruction takes from the stack, and those it leaves on it
Pops(instr) ==
    CASE instr.op \in BinaryInstrs -> 2
      [] instr.op \in UnaryInstrs \cup {"Store", "JumpZero", "JumpNotZero", "Return"} -> 1
      [] OTHER -> 0
Pushes(instr) ==
    IF instr.op \in BinaryInstrs \cup UnaryInstrs \cup {"Push", "Load"} THEN 1 ELSE 0

\* no instruction from i on finds fewer operands than it takes, with depth operands on
\* the stack before instruction i; a function starts with an empty stack
RECURSIVE EnoughOperandsFrom(_, _)
EnoughOperandsFrom(i, depth) ==
    IF i > Len(instructions) THEN TRUE
    ELSE IF instructions[i].op = "FuncStart" THEN EnoughOperandsFrom(i + 1, 0)
    ELSE /\ depth >= Pops(instructions[i])
         /\ EnoughOperandsFrom(i + 1, depth - Pops(instructions[i]) + Pushes(instructions[i]))

\* C29: in the intermediate code of every function no instruction pops from an empty
\* operand stack: every binary instruction is reached with at least two operands on the
\* stack, and every Store, conditional jump and Return with at least one.
C29_NoStackUnderflow == pc = "done" => EnoughOperandsFrom(1, 0)

(***************************************************************************)
(* The words a function writes, as distances from its frame pointer: $sp   *)
(* is followed through the lines in the order of the code.  f holds $sp,   *)
(* the word where $ra was saved (ra), the words written by the pushes of   *)
(* the operand stack (operands) and by the stores of locals (locals).  The *)
(* line of an operator stands for its template: it pops its operands,      *)
(* writes its result at 0($sp), and -4($sp) for a long, and pushes it.     *)
(***************************************************************************)
Frame0 == [sp |-> 0, ra |-> {}, operands |-> {}, locals |-> {}]

MoveSp(f, by) == [f EXCEPT !.sp = @ + by]
OperandWrite(f, at) == [f EXCEPT !.operands = @ \cup {f.sp + at}]
ResultOf(f, popped, type) ==
    LET width == WidthOf(type)
        top == MoveSp(f, popped * width)
    IN  MoveSp(IF type = "Long" THEN OperandWrite(OperandWrite(top, 0), -4)
               ELSE OperandWrite(top, 0),
               -width)

Executed(f, line) ==
    CASE line.text = "move $fp, $sp" -> [f EXCEPT !.sp = 0]
      [] line.text = "addiu $sp, $sp, -{}" -> MoveSp(f, -line.arg)
      [] line.text = "sw $ra, 0($sp)" -> [f EXCEPT !.ra = {f.sp}]
      [] line.text \in {"sw $t4, 0($sp)", "sw $t0, 0($sp)"} -> OperandWrite(f, 0)
      [] line.text \in {"sw $t5, -4($sp)", "sw $t1, -4($sp)"} -> OperandWrite(f, -4)
      [] line.text \in {"subi $sp, $sp, 4"} -> MoveSp(f, -4)
      [] line.text \in {"subi $sp, $sp, 8"} -> MoveSp(f, -8)
      [] line.text \in {"addi $sp, $sp, 4 # store int", "addi $sp, $sp, 4 # jump zero int",
                        "addi $sp, $sp, 4 # return int"} -> MoveSp(f, 4)
      [] line.text \in {"addi $sp, $sp, 8 # store long", "addi $sp, $sp, 8 # jump zero long",
                        "addi $sp, $sp, 8 # return long"} -> MoveSp(f, 8)
      [] line.text \in {"sw $t0, -{}($fp)", "sw $t1, -{}($fp)"} ->
           [f EXCEPT !.locals = @ \cup {-line.arg}]
      [] line.text = "# {} {}" ->
           ResultOf(f, IF line.arg[1] \in PeekingOperators THEN 1 ELSE 2, line.arg[2])
      [] OTHER -> f

\* the frames of the functions of the lines from k on, f being the frame of the function
\* that line k belongs to
RECURSIVE FramesFrom(_, _)
FramesFrom(k, f) ==
    IF k > Len(mips_instrs) THEN {f}
    ELSE IF mips_instrs[k].text = "{}: # start func"
    THEN {f} \cup FramesFrom(k + 1, Frame0)
    ELSE FramesFrom(k + 1, Executed(f, mips_instrs[k]))

Frames == FramesFrom(1, Frame0)

\* C30: in the lowered code of every function no push of the operand stack (Push, Load,
\* the result of an operator) writes the word where FuncStart saved the return address,
\* and none writes a word of the local variables of the function.
C30_FrameNotOverwritten ==
    pc = "lowered" =>
        \A f \in Frames : f.operands \cap (f.ra \cup f.locals) = {}

====
